---- MODULE Spec2Model ----
(***************************************************************************)
(* The outage tracker of backend/monitoring.py (InternetMonitor): the      *)
(* reachability cycle (_ping_monitor), the name-resolution cycle           *)
(* (_dns_monitor) and _check_outage_status with its database sessions      *)
(* (specification Spec); the fusion of backend/vpn_monitor.py              *)
(* (specification SpecFuse); the VPN detection cycle of                    *)
(* backend/monitoring.py (specification SpecVpn); detect_vpn_status source *)
(* by source (specification SpecDetect); the cycles as tasks of one event  *)
(* loop with start_monitoring, stop_monitoring and the cancellation of     *)
(* main (specification SpecSched, and SpecSchedFair with the fairness of   *)
(* the event loop); the throughput iteration with the HTTP fallback of     *)
(* backend/hybrid_speed_test.py (specification SpecSpeed); the retention   *)
(* sweep (specification SpecRetain); and the standalone loop of VPNMonitor *)
(* with its status history (specification SpecLog).                        *)
(*                                                                         *)
(* Time is counted in ticks, TicksPerSecond of them to a second, so that   *)
(* int(duration.total_seconds()) has something to truncate.                *)
(* A Python value that may be None is a sequence of length at most one:    *)
(* None is <<>>, a present value v is <<v>>.                               *)
(***************************************************************************)
EXTENDS Integers, Sequences, FiniteSets, TLC

\* ---- bounds of the model ----
MaxTime == 3
MaxOutages == 2
TicksPerSecond == 2

\* ---- configuration ----
PingHosts == <<"8.8.8.8", "1.1.1.1">>
DnsServers == <<"8.8.8.8">>

None == <<>>
Some(v) == <<v>>

\* Python truth of an optional Boolean column value: None and False are falsy.
Truthy(x) == x # None /\ x[1] = TRUE

VARIABLES
    now,             \* the clock read by get_arizona_time()
    current_outage,  \* self.current_outage: None or Some(index into outages)
    outages,         \* every OutageEvent object constructed so far, in order
    outage_events,   \* the rows of table outage_events (the persistence sink)
    session,         \* objects attached to the AsyncSession the handler holds
    ping_pc,         \* position of the _ping_monitor task
    ping_i,          \* index of the for loop over ping_hosts
    ping_result,     \* the result dict of the current iteration, or None
    dns_pc,          \* position of the _dns_monitor task
    dns_i,           \* index of the for loop over dns_servers
    dns_result,      \* the result dict of the last DNS test, or None
    last_fed,        \* history: outcome of the last probe the tracker processed
    run,             \* history: the current run of consecutive failed probes
    results,         \* detection_results: the signal list handed to fusion
    vpn_status,      \* the verdict the last call of fusion returned, or None
    current_vpn_status,  \* VPNMonitor.current_vpn_status: the previous verdict
    vpn_pc,          \* position of the _vpn_monitor task ("off": not enabled)
    vpn_events,      \* every VPNEvent object constructed so far, in order
    vpn_session,     \* VPNEvent objects attached to the handler's AsyncSession
    vpn_event_rows,  \* the rows of table vpn_events: indices into vpn_events
    vpn_status_rows, \* the number of rows of table vpn_status
    vpn_cycle,       \* history: the iterations of _vpn_monitor started so far
    cycle_time,      \* history: the clock when fusion was last called
    last_verdict,    \* history: the verdict of the iteration before this one
    snapshots_added, \* history: the VPNStatus rows handed to a session so far
    source_errors,   \* history: the evidence sources whose except clause ran
    config,          \* the configuration InternetMonitor was constructed with
    is_running,      \* self.is_running, the flag every cycle polls
    task_pc,         \* position of each cycle's task created by start_monitoring
    sleep_for,       \* the seconds passed to the asyncio.sleep a task awaits
    blocked_by,      \* the task whose blocking call holds the event loop thread
    gather_pc,       \* position of start_monitoring at its asyncio.gather
    stop_called,     \* history: stop_monitoring was called while gather waited
    interrupted,     \* history: tasks cancelled inside a unit of work
    accessed,        \* history: the tasks that read or wrote each reference
    speed_test_config,  \* config['speed_test']: method and calibration_factor
    speed_pc,        \* position of the iteration of _speed_test_monitor
    attempted,       \* history: the strategies the iteration has run
    speed_result,    \* the result dict of the iteration, or None
    speed_tests,     \* the rows of table speed_tests (the persistence sink)
    file_speeds,     \* what the three downloads of the hybrid fallback observe
    hybrid_result,   \* the dict HybridSpeedTest._run_http_speed_test returned
    vpn_history      \* self.vpn_history of VPNMonitor: the log entries kept

vars == <<now, current_outage, outages, outage_events, session, ping_pc, ping_i,
          ping_result, dns_pc, dns_i, dns_result, last_fed, run,
          results, vpn_status, current_vpn_status, vpn_pc, vpn_events,
          vpn_session, vpn_event_rows, vpn_status_rows, vpn_cycle, cycle_time,
          last_verdict, snapshots_added, source_errors, config, is_running,
          task_pc, sleep_for, blocked_by, gather_pc, stop_called, interrupted,
          accessed, speed_test_config, speed_pc, attempted, speed_result,
          speed_tests, file_speeds, hybrid_result, vpn_history>>

trackerVars == <<current_outage, outages, outage_events, session>>
pingVars == <<ping_pc, ping_i, ping_result, last_fed, run>>
dnsVars == <<dns_pc, dns_i, dns_result>>
vpnVars == <<results, vpn_status, current_vpn_status, vpn_pc, vpn_events,
             vpn_session, vpn_event_rows, vpn_status_rows, vpn_cycle,
             cycle_time, last_verdict, snapshots_added>>
detectVars == <<source_errors>>
schedVars == <<config, is_running, task_pc, sleep_for, blocked_by, gather_pc,
               stop_called, interrupted, accessed>>
speedVars == <<speed_test_config, speed_pc, attempted, speed_result,
               speed_tests, file_speeds, hybrid_result>>
logVars == <<vpn_history>>
extraVars == <<detectVars, schedVars, speedVars, logVars>>

\* ---- the cycles of InternetMonitor.start_monitoring ----
Cycles == {"ping", "speed", "dns", "stats", "cleanup", "vpn"}

\* The references the cycles keep in memory between iterations.
References == {"current_outage", "current_vpn_status"}

\* int(x) of Python truncates toward zero.
IntTrunc(n, d) == IF n >= 0 THEN n \div d ELSE -((-n) \div d)

\* severity='complete' if result['test_type'] == 'ping' else 'partial'
Severity(test_type) == IF test_type = "ping" THEN "complete" ELSE "partial"

\* OutageEvent(start_time=..., severity=..., description=...): the columns the
\* constructor is not given stay unset (None) on the object.
NewOutageEvent(result) ==
    [id |-> None,
     start_time |-> result.timestamp,
     end_time |-> None,
     duration_seconds |-> None,
     severity |-> Severity(result.test_type),
     description |-> <<result.target_host, result.test_type>>,
     is_resolved |-> None]

\* A duration rounded up instead of truncated.
DurationSecondsRoundedUp(timestamp, start_time) ==
    (timestamp - start_time + TicksPerSecond - 1) \div TicksPerSecond

\* int(duration.total_seconds()) for duration = timestamp - start_time
DurationSeconds(timestamp, start_time) ==
    IntTrunc(timestamp - start_time, TicksPerSecond)

\* A close that records the end and the duration and forgets the resolved flag.
ResolveOutageNoFlag(o, result) ==
    [o EXCEPT !.end_time = Some(result.timestamp),
              !.duration_seconds =
                  Some(DurationSeconds(result.timestamp, o.start_time))]

\* A close that marks the outage resolved and forgets its end time.
ResolveOutageNoEnd(o, result) ==
    [o EXCEPT !.is_resolved = Some(TRUE),
              !.duration_seconds =
                  Some(DurationSeconds(result.timestamp, o.start_time))]

\* The three assignments that end the current outage (no await between them).
ResolveOutage(o, result) ==
    [o EXCEPT !.end_time = Some(result.timestamp),
              !.is_resolved = Some(TRUE),
              !.duration_seconds =
                  Some(DurationSeconds(result.timestamp, o.start_time))]

\* The row an INSERT of object o writes: is_resolved takes the column default.
RowOf(o) ==
    [start_time |-> o.start_time,
     end_time |-> o.end_time,
     duration_seconds |-> o.duration_seconds,
     severity |-> o.severity,
     description |-> o.description,
     is_resolved |-> IF o.is_resolved = None THEN FALSE ELSE o.is_resolved[1]]

\* What a commit of the session writes: the objects attached to it.  An object
\* is attached only by db.add, so it is new and is inserted.
Flushed(sess) ==
    IF sess = {} THEN outage_events
    ELSE LET o == CHOOSE x \in sess : TRUE
         IN  Append(outage_events, RowOf(outages[o]))

\* The object state after a successful INSERT: primary key and column default.
Inserted(sess) ==
    [k \in DOMAIN outages |->
        IF k \in sess
        THEN [outages[k] EXCEPT !.id = Some(Len(outage_events) + 1),
                                !.is_resolved = Some(FALSE)]
        ELSE outages[k]]

\* The tracker holds an open outage: the slot refers to an unresolved event.
HoldsOpen ==
    current_outage # None /\ ~Truthy(outages[current_outage[1]].is_resolved)

\* A tracker that starts an outage on every failed probe.
AlwaysStartOutage == TRUE

\* if not self.current_outage
NoCurrentOutage == current_outage = None

\* A close that tests the slot alone, not the resolved flag.
CurrentOutagePresent == current_outage # None

\* if self.current_outage and not self.current_outage.is_resolved
CurrentOutageUnresolved ==
    current_outage # None /\ ~Truthy(outages[current_outage[1]].is_resolved)

\* VPNMonitor.__init__: no previous verdict; nothing detected, nothing stored.
VpnInit(pc) ==
    /\ results = <<>>
    /\ vpn_status = None
    /\ current_vpn_status = None
    /\ vpn_pc = pc
    /\ vpn_events = <<>>
    /\ vpn_session = {}
    /\ vpn_event_rows = <<>>
    /\ vpn_status_rows = 0
    /\ vpn_cycle = 0
    /\ cycle_time = 0
    /\ last_verdict = None
    /\ snapshots_added = 0

\* The parts of the program a specification leaves out have done nothing.
\* InternetMonitor.__init__: not running, no task created.
SchedInit(cfg) ==
    /\ config = cfg
    /\ is_running = FALSE
    /\ task_pc = [c \in Cycles |-> "none"]
    /\ sleep_for = [c \in Cycles |-> 0]
    /\ blocked_by = None
    /\ gather_pc = "idle"
    /\ stop_called = FALSE
    /\ interrupted = {}
    /\ accessed = [r \in References |-> {}]

\* The configuration of main.load_config when config.json is absent, with
\* VPN monitoring enabled.
DefaultConfig ==
    [check_interval_seconds |-> 30, speed_interval_is_number |-> TRUE]

\* speed_test_config.get('calibration_factor', 15.0)
CalibrationFactor == 15

\* No throughput iteration has run and no download has been made.
SpeedIdle ==
    /\ speed_test_config = [method |-> "speedtest-cli",
                            calibration_factor |-> CalibrationFactor]
    /\ speed_pc = "off"
    /\ attempted = <<>>
    /\ speed_result = None
    /\ speed_tests = <<>>
    /\ file_speeds = <<None, None, None>>
    /\ hybrid_result = None

ExtraIdle ==
    /\ source_errors = {}
    /\ vpn_history = <<>>
    /\ SchedInit(DefaultConfig)
    /\ SpeedIdle

Init ==
    /\ now = 0
    /\ current_outage = None
    /\ outages = <<>>
    /\ outage_events = <<>>
    /\ session = {}
    /\ ping_pc = "ping"
    /\ ping_i = 1
    /\ ping_result = None
    /\ dns_pc = "test"
    /\ dns_i = 1
    /\ dns_result = None
    /\ last_fed = "none"
    /\ run = None
    /\ VpnInit("off")
    /\ ExtraIdle

\* The wall clock advances.
Tick ==
    /\ now < MaxTime
    /\ now' = now + 1
    /\ UNCHANGED <<trackerVars, pingVars, dnsVars>>
    /\ UNCHANGED <<vpnVars, extraVars>>

\* The result dict _ping_host returns.
PingResult(host, success) ==
    [timestamp |-> now, is_connected |-> success,
     target_host |-> host, test_type |-> "ping"]

\* result = await self._ping_host(host); await self._save_connectivity_test(result)
PingHost(success) ==
    /\ ping_pc = "ping"
    /\ ~success => (current_outage # None \/ Len(outages) < MaxOutages)
    /\ ping_result' = Some(PingResult(PingHosts[ping_i], success))
    /\ ping_pc' = "check"
    /\ UNCHANGED <<now, trackerVars, ping_i, last_fed, run, dnsVars>>
    /\ UNCHANGED <<vpnVars, extraVars>>

\* The end of one pass of the for loop: the next host, or the sleep.
EndIteration ==
    /\ ping_result' = None
    /\ last_fed' = IF ping_result[1].is_connected THEN "ok" ELSE "fail"
    /\ IF ping_i < Len(PingHosts)
       THEN ping_i' = ping_i + 1 /\ ping_pc' = "ping"
       ELSE ping_i' = 1 /\ ping_pc' = "sleep"

\* _check_outage_status up to its first await (or to its end when no branch
\* is taken).
CheckOutageStatus ==
    /\ ping_pc = "check"
    /\ LET result == ping_result[1] IN
        IF ~result.is_connected
        THEN /\ run' = IF last_fed = "fail" THEN run
                       ELSE Some([first |-> result.timestamp, base |-> Len(outages)])
             /\ IF NoCurrentOutage
                THEN /\ outages' = Append(outages, NewOutageEvent(result))
                     /\ current_outage' = Some(Len(outages) + 1)
                     /\ session' = {Len(outages) + 1}
                     /\ ping_pc' = "open_commit"
                     /\ UNCHANGED <<outage_events, ping_i, ping_result, last_fed>>
                ELSE /\ EndIteration
                     /\ UNCHANGED trackerVars
        ELSE /\ IF CurrentOutageUnresolved
                THEN /\ outages' = [outages EXCEPT ![current_outage[1]] =
                                        ResolveOutage(@, result)]
                     /\ session' = {}
                     /\ ping_pc' = "close_commit"
                     /\ UNCHANGED <<current_outage, outage_events, ping_i,
                                    ping_result, last_fed, run>>
                ELSE /\ EndIteration
                     /\ run' = None
                     /\ UNCHANGED trackerVars
    /\ UNCHANGED <<now, dnsVars>>
    /\ UNCHANGED <<vpnVars, extraVars>>

\* await db.commit() of the open: it returns, or it raises and the except
\* clause logs the error; the session ends with the async with block.
OpenCommit(ok) ==
    /\ ping_pc = "open_commit"
    /\ IF ok
       THEN /\ outage_events' = Flushed(session)
            /\ outages' = Inserted(session)
       ELSE UNCHANGED <<outage_events, outages>>
    /\ session' = {}
    /\ EndIteration
    /\ UNCHANGED <<now, current_outage, run, dnsVars>>
    /\ UNCHANGED <<vpnVars, extraVars>>

\* await db.commit() of the close, then self.current_outage = None; when the
\* commit raises the assignment is skipped.
CloseCommit(ok) ==
    /\ ping_pc = "close_commit"
    /\ IF ok
       THEN /\ outage_events' = Flushed(session)
            /\ current_outage' = None
       ELSE UNCHANGED <<outage_events, current_outage>>
    /\ session' = {}
    /\ EndIteration
    /\ run' = None
    /\ UNCHANGED <<now, outages, dnsVars>>
    /\ UNCHANGED <<vpnVars, extraVars>>

\* await asyncio.sleep(interval) of the ping cycle returns.
PingSleep ==
    /\ ping_pc = "sleep"
    /\ ping_pc' = "ping"
    /\ UNCHANGED <<now, trackerVars, ping_i, ping_result, last_fed, run, dnsVars>>
    /\ UNCHANGED <<vpnVars, extraVars>>

\* The result dict _test_dns returns (its timestamp is read by no one: the
\* result goes to _save_connectivity_test only).
DnsResult(server, success) ==
    [is_connected |-> success, target_host |-> server, test_type |-> "dns"]

\* result = await self._test_dns(dns_server);
\* await self._save_connectivity_test(result)
TestDns(success) ==
    /\ dns_pc = "test"
    /\ dns_result' = Some(DnsResult(DnsServers[dns_i], success))
    /\ IF dns_i < Len(DnsServers)
       THEN dns_i' = dns_i + 1 /\ dns_pc' = "test"
       ELSE dns_i' = 1 /\ dns_pc' = "sleep"
    /\ UNCHANGED <<now, trackerVars, pingVars>>
    /\ UNCHANGED <<vpnVars, extraVars>>

\* await asyncio.sleep(interval) of the DNS cycle returns.
DnsSleep ==
    /\ dns_pc = "sleep"
    /\ dns_pc' = "test"
    /\ dns_result' = None
    /\ UNCHANGED <<now, trackerVars, dns_i, pingVars>>
    /\ UNCHANGED <<vpnVars, extraVars>>

Next ==
    \/ Tick
    \/ \E success \in BOOLEAN : PingHost(success)
    \/ CheckOutageStatus
    \/ \E ok \in BOOLEAN : OpenCommit(ok)
    \/ \E ok \in BOOLEAN : CloseCommit(ok)
    \/ PingSleep
    \/ \E success \in BOOLEAN : TestDns(success)
    \/ DnsSleep

Spec == Init /\ [][Next]_vars

\* ------------------------------------------------------------------------
\* Properties of the outage tracker
\* ------------------------------------------------------------------------

\* The ping task is between two calls of _check_outage_status, or has a result
\* it has not yet handed over: every probe fed so far is fully processed.
ProbeProcessed == ping_pc \notin {"open_commit", "close_commit"}

\* This step is the one in which _check_outage_status takes its branch.
CheckStep == ping_pc = "check" /\ ping_pc' # "check"

\* This step is the one in which _check_outage_status returns.
CheckReturns ==
    /\ ping_pc \in {"check", "open_commit", "close_commit"}
    /\ ping_pc' \in {"ping", "sleep"}

\* This step is one pass of the DNS cycle's for loop.
DnsStep == dns_pc = "test" /\ <<dns_pc, dns_i, dns_result>>' # <<dns_pc, dns_i, dns_result>>

Unresolved == {k \in DOMAIN outages : ~Truthy(outages[k].is_resolved)}

\* C1: after each probe has been processed, the tracker holds an open
\* (unresolved) outage if and only if the most recently processed probe failed.
C1_OpenIffLastProbeFailed ==
    ProbeProcessed => (HoldsOpen <=> last_fed = "fail")

\* C2: in every reachable state at most one OutageEvent is unresolved.
C2_AtMostOneOpen == Cardinality(Unresolved) <= 1

\* A second outage is open after the first was closed, and a failed probe of
\* the other host has been processed while it was open.
C2_Witness ==
    /\ Len(outages) = 2
    /\ Truthy(outages[1].is_resolved)
    /\ current_outage = Some(2)
    /\ HoldsOpen
    /\ outages[2].description[1] = PingHosts[1]
    /\ ping_pc = "sleep"
    /\ last_fed = "fail"

\* C3: a failed probe observed while no outage is open opens exactly one new
\* OutageEvent: start = the probe's timestamp, unresolved, no end time, severity
\* 'complete' for ping and 'partial' for dns, retained as the current outage.
C3_FailedProbeOpens ==
    [][(CheckStep /\ ~ping_result[1].is_connected /\ ~HoldsOpen) =>
          /\ Len(outages') = Len(outages) + 1
          /\ SubSeq(outages', 1, Len(outages)) = outages
          /\ current_outage' = Some(Len(outages'))
          /\ LET e == outages'[Len(outages')]
                 r == ping_result[1]
             IN  /\ e.start_time = r.timestamp
                 /\ e.end_time = None
                 /\ ~Truthy(e.is_resolved)
                 /\ e.severity = IF r.test_type = "ping" THEN "complete"
                                 ELSE "partial"]_vars

\* C4: a successful probe observed while an outage is open sets that outage's
\* end to the probe's timestamp, its duration to the whole seconds between
\* start and end, resolved = true, and leaves the tracker holding no outage.
C4_SuccessClosesAndClears ==
    [][/\ (CheckStep /\ ping_result[1].is_connected /\ HoldsOpen)
            => ping_pc' = "close_commit"
       /\ (ping_pc = "close_commit" /\ CheckReturns) =>
            /\ current_outage' = None
            /\ LET o == outages'[current_outage[1]]
                   r == ping_result[1]
               IN  /\ o.end_time = Some(r.timestamp)
                   /\ Truthy(o.is_resolved)
                   /\ o.duration_seconds =
                        Some((r.timestamp - o.start_time) \div TicksPerSecond)]_vars

\* C5: a failed probe observed while an outage is open, and a successful probe
\* observed while none is open, are no-ops: the slot, every OutageEvent and the
\* sink stay as they were, and the call returns without a commit.
C5_OtherCombinationsNoOps ==
    [][(CheckStep /\ (ping_result[1].is_connected <=> ~HoldsOpen)) =>
          /\ UNCHANGED <<current_outage, outages, outage_events>>
          /\ CheckReturns]_vars

\* An outage opened by the second host is still open, with its start in the
\* past, after a failed probe of the first host has been processed.
C5_Witness ==
    /\ Len(outages) = 1
    /\ HoldsOpen
    /\ outages[1].description[1] = PingHosts[2]
    /\ outages[1].start_time < now
    /\ ping_pc = "ping"
    /\ ping_i = 2
    /\ last_fed = "fail"

\* C6: for every OutageEvent, object or stored row, in every reachable state
\* (the states inside the awaits of a close included) the end time is present
\* if and only if resolved is true.
C6_EndTimeIffResolved ==
    /\ \A k \in DOMAIN outages :
          (outages[k].end_time # None) <=> Truthy(outages[k].is_resolved)
    /\ \A j \in DOMAIN outage_events :
          (outage_events[j].end_time # None) <=> outage_events[j].is_resolved

\* The close is waiting for its commit: the outage is already resolved, the
\* slot is not yet cleared.
C6_Witness ==
    /\ ping_pc = "close_commit"
    /\ current_outage # None
    /\ Truthy(outages[current_outage[1]].is_resolved)
    /\ outages[current_outage[1]].end_time # None

\* C7: for every closed OutageEvent the duration is floor(end - start) in whole
\* seconds and is not negative.
C7_DurationIsFloor ==
    \A k \in DOMAIN outages :
        Truthy(outages[k].is_resolved) =>
            /\ outages[k].duration_seconds # None
            /\ outages[k].end_time # None
            /\ outages[k].duration_seconds[1] >= 0
            /\ outages[k].duration_seconds[1] * TicksPerSecond
                 <= outages[k].end_time[1] - outages[k].start_time
            /\ outages[k].end_time[1] - outages[k].start_time
                 < (outages[k].duration_seconds[1] + 1) * TicksPerSecond

\* A closed outage that lasted a whole second and a fraction.
C7_Witness ==
    \E k \in DOMAIN outages :
        /\ Truthy(outages[k].is_resolved)
        /\ outages[k].duration_seconds = Some(1)
        /\ outages[k].end_time[1] - outages[k].start_time > TicksPerSecond

\* C8: a run of consecutive failed probes followed by a successful probe yields
\* exactly one OutageEvent, which starts at the first failure of the run and
\* ends at that success.
C8_RunYieldsOneOutage ==
    [][(CheckReturns /\ ping_result[1].is_connected /\ run # None) =>
          /\ Len(outages') = run[1].base + 1
          /\ outages'[run[1].base + 1].start_time = run[1].first
          /\ outages'[run[1].base + 1].end_time = Some(ping_result[1].timestamp)
          /\ Truthy(outages'[run[1].base + 1].is_resolved)]_vars

\* C9: the ping cycle and the DNS cycle both feed the shared tracker: once a
\* probe of either cycle has been processed, an outage is open if that probe
\* failed and none is open if it succeeded.
C9_BothCyclesFeedTracker ==
    [][/\ DnsStep => (HoldsOpen' <=> ~dns_result'[1].is_connected)
       /\ CheckReturns => (HoldsOpen' <=> ~ping_result[1].is_connected)]_vars

\* C10: once the tracker has closed an outage and the close's commit has
\* succeeded, the row inserted for that outage is stored resolved, with its end
\* time and its duration.
C10_ClosedOutageStoredResolved ==
    \A k \in DOMAIN outages :
        (/\ outages[k].id # None
         /\ Truthy(outages[k].is_resolved)
         /\ current_outage # Some(k)) =>
            LET row == outage_events[outages[k].id[1]]
            IN  /\ row.is_resolved
                /\ row.end_time = outages[k].end_time
                /\ row.duration_seconds = outages[k].duration_seconds

\* ------------------------------------------------------------------------
\* VPN detection: the fusion of backend/vpn_monitor.py
\* (VPNMonitor._combine_detection_results)
\* ------------------------------------------------------------------------
\* A signal is the dict an evidence source returns: method, confidence,
\* provider and public_ip, the last two None when the key is missing.
\* Confidences are counted in hundredths (0.7 is 70).  A mean is the pair
\* <<total, count>> in lowest terms; it is compared with a threshold by cross
\* multiplication.  Over the confidence levels used here the float mean of the
\* code is on the same side of 0.6 as the exact mean whenever the decision
\* depends on it (no signal at 0.7 or more).

\* ---- bounds of the fusion specification ----
MaxSignals == 2

\* ---- thresholds of the code, in hundredths ----
StrongIndicatorConfidence == 70
AvgConfidenceThreshold == 60
BestResultThreshold == 50
StrongEvidenceConfidence == 80
InterfaceEvidenceConfidence == 70

Signal(method, confidence, provider, public_ip) ==
    [method |-> method, confidence |-> confidence,
     provider |-> provider, public_ip |-> public_ip]

RECURSIVE GCD(_, _)
GCD(a, b) == IF b = 0 THEN a ELSE GCD(b, a % b)

\* total / count as a fraction in lowest terms (0 is <<0, 1>>).
Mean(total, count) ==
    LET g == GCD(total, count) IN <<total \div g, count \div g>>

RECURSIVE SumConfidence(_)
\* sum(r.get('confidence', 0) for r in results)
SumConfidence(rs) ==
    IF rs = <<>> THEN 0 ELSE rs[1].confidence + SumConfidence(Tail(rs))

\* avg_confidence = total_confidence / len(results)
AvgConfidence(rs) == Mean(SumConfidence(rs), Len(rs))

\* avg_confidence > 0.6
AvgConfidenceHigh(rs) == SumConfidence(rs) > AvgConfidenceThreshold * Len(rs)

\* A maximum that lets the last of several highest signals win.
BestResultLast(rs) ==
    LET i == CHOOSE k \in DOMAIN rs :
                 /\ \A j \in DOMAIN rs : rs[j].confidence <= rs[k].confidence
                 /\ \A j \in (k + 1)..Len(rs) :
                       rs[j].confidence < rs[k].confidence
    IN  rs[i]

\* max(results, key=confidence): the first signal of the highest confidence.
BestResult(rs) ==
    LET i == CHOOSE k \in DOMAIN rs :
                 /\ \A j \in DOMAIN rs : rs[j].confidence <= rs[k].confidence
                 /\ \A j \in 1..(k - 1) : rs[j].confidence < rs[k].confidence
    IN  rs[i]

\* The public IP of the first signal of the list, whatever comes after it.
PublicIpOfFirst(rs) ==
    IF rs[1].method = "ip" THEN rs[1].public_ip ELSE None

\* The public_ip of the first ip signal that has one, or None.
PublicIp(rs) ==
    LET withIp == SelectSeq(rs, LAMBDA r : r.method = "ip" /\ r.public_ip # None)
    IN  IF withIp = <<>> THEN None ELSE withIp[1].public_ip

\* A strong indicator that counts every ip signal, matched or not.
IsStrongIndicatorAnyIp(r) ==
    \/ r.confidence >= StrongIndicatorConfidence
    \/ r.method = "ip"
    \/ r.method = "interface" /\ r.provider # None

\* A strong indicator that looks at the confidence alone.
IsStrongIndicatorByConfidence(r) ==
    r.confidence >= StrongIndicatorConfidence

\* The if / elif / elif chain that fills strong_indicators.
IsStrongIndicator(r) ==
    \/ r.confidence >= StrongIndicatorConfidence
    \/ r.method = "ip" /\ r.provider # None
    \/ r.method = "interface" /\ r.provider # None

\* strong_indicators, in signal order
StrongIndicators(rs) == SelectSeq(rs, IsStrongIndicator)

\* if strong_indicators or avg_confidence > 0.6
PreliminaryActive(rs) == StrongIndicators(rs) # <<>> \/ AvgConfidenceHigh(rs)

\* A preliminary provider taken from the best signal in every case.
PreliminaryProviderOfBest(rs) ==
    IF ~PreliminaryActive(rs) THEN None
    ELSE IF BestResult(rs).confidence > BestResultThreshold
         THEN BestResult(rs).provider
    ELSE None

\* The provider chosen with the preliminary decision.
PreliminaryProvider(rs) ==
    IF ~PreliminaryActive(rs) THEN None
    ELSE IF StrongIndicators(rs) # <<>> THEN StrongIndicators(rs)[1].provider
    ELSE IF BestResult(rs).confidence > BestResultThreshold
         THEN BestResult(rs).provider
    ELSE None

\* ip_matches_vpn: some ip signal names a provider
IpMatchesVpn(rs) ==
    \E k \in DOMAIN rs : rs[k].method = "ip" /\ rs[k].provider # None

\* Process or interface evidence accepted from the strong-indicator level on.
StrongEvidenceFromSeventy(rs) ==
    \E k \in DOMAIN rs :
        /\ rs[k].confidence >= StrongIndicatorConfidence
        /\ rs[k].method \in {"process", "interface"}

\* strong_evidence of the first downgrade
StrongEvidence(rs) ==
    \E k \in DOMAIN rs :
        /\ rs[k].confidence >= StrongEvidenceConfidence
        /\ rs[k].method \in {"process", "interface"}

\* Evidence for the second downgrade that lets a confident process signal count.
HasStrongEvidenceOrProcess(rs) ==
    \E k \in DOMAIN rs :
        \/ /\ rs[k].method \in {"process", "interface"}
           /\ rs[k].confidence >= InterfaceEvidenceConfidence
           /\ rs[k].provider # None
        \/ rs[k].method = "ip" /\ rs[k].provider # None

\* has_strong_evidence of the second downgrade
HasStrongEvidence(rs) ==
    \E k \in DOMAIN rs :
        \/ /\ rs[k].method = "interface"
           /\ rs[k].confidence >= InterfaceEvidenceConfidence
           /\ rs[k].provider # None
        \/ rs[k].method = "ip" /\ rs[k].provider # None

\* is_active after the first downgrade (if public_ip and is_active: ...)
ActiveAfterFirst(rs) ==
    /\ PreliminaryActive(rs)
    /\ PublicIp(rs) # None => (IpMatchesVpn(rs) \/ StrongEvidence(rs))

\* is_active after the second downgrade (if is_active and public_ip: ...)
ActiveAfterSecond(rs) ==
    /\ ActiveAfterFirst(rs)
    /\ PublicIp(rs) # None => HasStrongEvidence(rs)

\* A return that keeps the preliminary provider through the downgrades.
FinalProviderKept(rs) == PreliminaryProvider(rs)

\* provider at the return: both downgrades reset it to None.
FinalProvider(rs) ==
    IF ActiveAfterSecond(rs) THEN PreliminaryProvider(rs) ELSE None

\* connection_time=self.current_vpn_status.connection_time
\*     if self.current_vpn_status and is_active else self.get_arizona_time()
ConnectionTime(is_active, current, time) ==
    IF current # None /\ is_active THEN current[1].connection_time
    ELSE Some(time)

\* The VPNStatus the fusion builds.
Verdict(is_active, provider, rs, connection_time) ==
    [is_active |-> is_active,
     provider |-> provider,
     server_location |-> None,
     public_ip |-> PublicIp(rs),
     interface_name |-> None,
     connection_time |-> connection_time,
     detection_method |-> BestResult(rs).method,
     confidence |-> AvgConfidence(rs)]

\* A fusion that keeps the previous verdict's provider when it finds none.
CombineKeepingProvider(rs, current, time) ==
    Verdict(ActiveAfterSecond(rs),
            IF FinalProvider(rs) = None /\ current # None
            THEN current[1].provider ELSE FinalProvider(rs),
            rs,
            ConnectionTime(ActiveAfterSecond(rs), current, time))

\* _combine_detection_results(results), with the two things it reads besides
\* its argument: self.current_vpn_status and the clock.
CombineDetectionResults(rs, current, time) ==
    Verdict(ActiveAfterSecond(rs), FinalProvider(rs), rs,
            ConnectionTime(ActiveAfterSecond(rs), current, time))

\* ---- the fusion called on arbitrary signal lists ----
Methods == {"process", "interface", "ip", "dns", "routing"}
ConfidenceLevels == {0, 30, 65, 70, 90}
Providers == {"nordvpn"}
PublicIps == {"203.0.113.7"}

Signals ==
    {Signal(m, c, p, ip) :
        m \in Methods \ {"ip"}, c \in ConfidenceLevels,
        p \in {None} \cup {Some(x) : x \in Providers}, ip \in {None}}
    \cup
    {Signal("ip", c, p, ip) :
        c \in ConfidenceLevels,
        p \in {None} \cup {Some(x) : x \in Providers},
        ip \in {None} \cup {Some(x) : x \in PublicIps}}

\* Every non-empty signal list of at most MaxSignals signals.
SignalLists == UNION {[1..n -> Signals] : n \in 1..MaxSignals}

\* A signal of confidence 0 without a provider.
Degraded(r) == r.confidence = 0 /\ r.provider = None

\* The previous verdicts a call may find: none, an active and an inactive one.
PreviousVerdicts ==
    {None,
     Some(Verdict(TRUE, Some("nordvpn"),
                  <<Signal("interface", 90, Some("nordvpn"), None)>>, Some(0))),
     Some(Verdict(FALSE, None, <<Signal("process", 0, None, None)>>, Some(0)))}

InsertAt(rs, pos, r) ==
    SubSeq(rs, 1, pos - 1) \o <<r>> \o SubSeq(rs, pos, Len(rs))

\* The outage tracker and the VPN cycle's sink do nothing in the fusion
\* specification.
FuseFrame ==
    UNCHANGED <<trackerVars, pingVars, dnsVars, vpn_events, vpn_session,
                vpn_event_rows, vpn_status_rows, vpn_cycle, last_verdict,
                snapshots_added, extraVars>>

InitFuse ==
    /\ now = 1
    /\ current_outage = None
    /\ outages = <<>>
    /\ outage_events = <<>>
    /\ session = {}
    /\ ping_pc = "off"
    /\ ping_i = 1
    /\ ping_result = None
    /\ dns_pc = "off"
    /\ dns_i = 1
    /\ dns_result = None
    /\ last_fed = "none"
    /\ run = None
    /\ results \in SignalLists
    /\ vpn_status = None
    /\ current_vpn_status = None
    /\ vpn_pc = "input"
    /\ vpn_events = <<>>
    /\ vpn_session = {}
    /\ vpn_event_rows = <<>>
    /\ vpn_status_rows = 0
    /\ vpn_cycle = 0
    /\ cycle_time = 0
    /\ last_verdict = None
    /\ snapshots_added = 0
    /\ ExtraIdle

\* The first call of fusion on the list.
FuseCall ==
    /\ vpn_pc = "input"
    /\ vpn_status' = Some(CombineDetectionResults(results, current_vpn_status, now))
    /\ cycle_time' = now
    /\ vpn_pc' = "returned"
    /\ UNCHANGED <<now, results, current_vpn_status>>
    /\ FuseFrame

\* A second call on the same list, later and after other cycles have left
\* another previous verdict.
FuseAgain(current) ==
    /\ vpn_pc = "returned"
    /\ current_vpn_status' = current
    /\ now' = now + 1
    /\ vpn_status' = Some(CombineDetectionResults(results, current, now + 1))
    /\ cycle_time' = now + 1
    /\ vpn_pc' = "again"
    /\ UNCHANGED results
    /\ FuseFrame

\* A call on the list with one more signal, a degraded one, put at pos.
FuseExtended(pos, r) ==
    /\ vpn_pc = "returned"
    /\ Len(results) < MaxSignals
    /\ pos \in 1..(Len(results) + 1)
    /\ Degraded(r)
    /\ results' = InsertAt(results, pos, r)
    /\ vpn_status' = Some(CombineDetectionResults(results', current_vpn_status, now))
    /\ cycle_time' = now
    /\ vpn_pc' = "extended"
    /\ UNCHANGED <<now, current_vpn_status>>
    /\ FuseFrame

NextFuse ==
    \/ FuseCall
    \/ \E current \in PreviousVerdicts : FuseAgain(current)
    \/ \E pos \in 1..MaxSignals, r \in Signals : FuseExtended(pos, r)

SpecFuse == InitFuse /\ [][NextFuse]_vars

\* ------------------------------------------------------------------------
\* The VPN detection cycle of backend/monitoring.py
\* (InternetMonitor._vpn_monitor, _save_vpn_status, _handle_vpn_status_change)
\* ------------------------------------------------------------------------
\* In this specification the clock advances while the cycle sleeps: by the
\* check interval, half a minute, so that int(duration.total_seconds() / 60)
\* has something to truncate.  The cycle runs until the clock reaches MaxTime
\* intervals.

SecondsPerMinute == 60
CheckIntervalSeconds == 30
Interval == CheckIntervalSeconds * TicksPerSecond

\* Dicts the five evidence sources return.  The process and the ip source
\* vary from cycle to cycle; the other three find nothing.
DetectVpnProcesses ==
    {Signal("process", 0, None, None),
     Signal("process", 90, Some("nordvpn"), None)}

DetectVpnInterfaces == {Signal("interface", 0, None, None)}

DetectVpnByIp ==
    {Signal("ip", 0, None, None),
     Signal("ip", 30, None, Some("203.0.113.7")),
     Signal("ip", 70, Some("nordvpn"), Some("203.0.113.7"))}

DetectVpnByDns == {Signal("dns", 0, None, None)}

DetectVpnByRouting == {Signal("routing", 0, None, None)}

\* int(duration.total_seconds() / 60) for duration = time - connection_time
DurationMinutes(time, connection_time) ==
    IntTrunc(time - connection_time, SecondsPerMinute * TicksPerSecond)

\* self.vpn_monitor.current_vpn_status and
\* self.vpn_monitor.current_vpn_status.is_active
CurrentIsActive(current) == current # None /\ current[1].is_active

\* VPNEvent(event_type='connected', ...) from the new verdict.  cycle is not a
\* column: it records the time of the detection cycle that led to the event.
ConnectedEvent(new_status, time, cycle) ==
    [timestamp |-> time,
     event_type |-> "connected",
     provider |-> new_status.provider,
     public_ip |-> new_status.public_ip,
     confidence |-> new_status.confidence,
     duration_minutes |-> None,
     cycle |-> cycle]

\* A 'disconnected' event filled from the new verdict.
DisconnectedEventOfNew(new_status, current, time, cycle) ==
    [timestamp |-> time,
     event_type |-> "disconnected",
     provider |-> new_status.provider,
     public_ip |-> new_status.public_ip,
     confidence |-> new_status.confidence,
     duration_minutes |->
        IF current.connection_time # None
        THEN Some(DurationMinutes(time, current.connection_time[1]))
        ELSE None,
     cycle |-> cycle]

\* VPNEvent(event_type='disconnected', ...) from the previous verdict.
DisconnectedEvent(new_status, current, time, cycle) ==
    [timestamp |-> time,
     event_type |-> "disconnected",
     provider |-> current.provider,
     public_ip |-> current.public_ip,
     confidence |-> current.confidence,
     duration_minutes |->
        IF current.connection_time # None
        THEN Some(DurationMinutes(time, current.connection_time[1]))
        ELSE None,
     cycle |-> cycle]

\* A tracker that reports every change of the verdict as an edge.
VpnEventOnAnyChange(new_status, current, time, cycle) ==
    IF new_status.is_active
    THEN <<ConnectedEvent(new_status, time, cycle)>>
    ELSE IF current # None
    THEN <<DisconnectedEvent(new_status, current[1], time, cycle)>>
    ELSE <<>>

\* The if / elif of _handle_vpn_status_change: the events it constructs.
VpnEventFor(new_status, current, time, cycle) ==
    IF new_status.is_active /\ ~CurrentIsActive(current)
    THEN <<ConnectedEvent(new_status, time, cycle)>>
    ELSE IF ~new_status.is_active /\ CurrentIsActive(current)
    THEN <<DisconnectedEvent(new_status, current[1], time, cycle)>>
    ELSE <<>>

\* The outage tracker is not running in the VPN cycle specification.
VpnFrame == UNCHANGED <<trackerVars, pingVars, dnsVars, extraVars>>

InitVpn ==
    /\ now = 0
    /\ current_outage = None
    /\ outages = <<>>
    /\ outage_events = <<>>
    /\ session = {}
    /\ ping_pc = "off"
    /\ ping_i = 1
    /\ ping_result = None
    /\ dns_pc = "off"
    /\ dns_i = 1
    /\ dns_result = None
    /\ last_fed = "none"
    /\ run = None
    /\ VpnInit("detect")
    /\ ExtraIdle

\* vpn_status = await self.vpn_monitor.detect_vpn_status(): the five sources
\* in order, then fusion.
DetectVpnStatus(rs) ==
    /\ vpn_pc = "detect"
    /\ vpn_cycle' = vpn_cycle + 1
    /\ results' = rs
    /\ vpn_status' = Some(CombineDetectionResults(rs, current_vpn_status, now))
    /\ cycle_time' = now
    /\ last_verdict' = vpn_status
    /\ vpn_pc' = "save"
    /\ UNCHANGED <<now, current_vpn_status, vpn_events, vpn_session,
                   vpn_event_rows, vpn_status_rows, snapshots_added>>
    /\ VpnFrame

\* A cycle that stores a snapshot only when the verdict has changed.
SaveVpnStatusOnChange(ok) ==
    /\ vpn_pc = "save"
    /\ snapshots_added' = IF vpn_status # current_vpn_status
                          THEN snapshots_added + 1 ELSE snapshots_added
    /\ vpn_status_rows' = IF ok /\ vpn_status # current_vpn_status
                          THEN vpn_status_rows + 1 ELSE vpn_status_rows
    /\ results' = <<>>
    /\ vpn_pc' = "compare"
    /\ UNCHANGED <<now, vpn_status, current_vpn_status, vpn_events, vpn_session,
                   vpn_event_rows, vpn_cycle, cycle_time, last_verdict>>
    /\ VpnFrame

\* await self._save_vpn_status(vpn_status): db.add(db_vpn_status), then the
\* commit returns, or it raises
\* and the except clause logs the error.
SaveVpnStatus(ok) ==
    /\ vpn_pc = "save"
    /\ snapshots_added' = snapshots_added + 1
    /\ vpn_status_rows' = IF ok THEN vpn_status_rows + 1 ELSE vpn_status_rows
    /\ results' = <<>>
    /\ vpn_pc' = "compare"
    /\ UNCHANGED <<now, vpn_status, current_vpn_status, vpn_events, vpn_session,
                   vpn_event_rows, vpn_cycle, cycle_time, last_verdict>>
    /\ VpnFrame

\* if vpn_status != current_vpn_status: _handle_vpn_status_change up to its
\* await db.commit(); otherwise straight to the sleep.
HandleVpnStatusChange ==
    /\ vpn_pc = "compare"
    /\ IF vpn_status # current_vpn_status
       THEN LET event == VpnEventFor(vpn_status[1], current_vpn_status, now,
                                     cycle_time)
            IN  /\ vpn_events' = vpn_events \o event
                /\ vpn_session' = IF event = <<>> THEN {}
                                  ELSE {Len(vpn_events) + 1}
                /\ vpn_pc' = "commit"
       ELSE /\ vpn_pc' = "sleep"
            /\ UNCHANGED <<vpn_events, vpn_session>>
    /\ UNCHANGED <<now, results, vpn_status, current_vpn_status, vpn_event_rows,
                   vpn_status_rows, vpn_cycle, cycle_time, last_verdict,
                   snapshots_added>>
    /\ VpnFrame

\* A cycle that remembers the verdict only when the event write landed.
VpnEventCommitIfStored(ok) ==
    /\ vpn_pc = "commit"
    /\ vpn_event_rows' =
          IF ok /\ vpn_session # {}
          THEN Append(vpn_event_rows, CHOOSE k \in vpn_session : TRUE)
          ELSE vpn_event_rows
    /\ vpn_session' = {}
    /\ current_vpn_status' = IF ok THEN vpn_status ELSE current_vpn_status
    /\ vpn_pc' = "sleep"
    /\ UNCHANGED <<now, results, vpn_status, vpn_events, vpn_status_rows,
                   vpn_cycle, cycle_time, last_verdict, snapshots_added>>
    /\ VpnFrame

\* await db.commit() of the handler returns or raises (logged); then
\* self.vpn_monitor.current_vpn_status = vpn_status.
VpnEventCommit(ok) ==
    /\ vpn_pc = "commit"
    /\ vpn_event_rows' =
          IF ok /\ vpn_session # {}
          THEN Append(vpn_event_rows, CHOOSE k \in vpn_session : TRUE)
          ELSE vpn_event_rows
    /\ vpn_session' = {}
    /\ current_vpn_status' = vpn_status
    /\ vpn_pc' = "sleep"
    /\ UNCHANGED <<now, results, vpn_status, vpn_events, vpn_status_rows,
                   vpn_cycle, cycle_time, last_verdict, snapshots_added>>
    /\ VpnFrame

\* await asyncio.sleep(interval) of the VPN cycle returns, an interval later.
VpnSleep ==
    /\ vpn_pc = "sleep"
    /\ now < MaxTime * Interval
    /\ now' = now + Interval
    /\ vpn_pc' = "detect"
    /\ UNCHANGED <<results, vpn_status, current_vpn_status, vpn_events,
                   vpn_session, vpn_event_rows, vpn_status_rows, vpn_cycle,
                   cycle_time, last_verdict, snapshots_added>>
    /\ VpnFrame

NextVpn ==
    \/ \E p \in DetectVpnProcesses, i \in DetectVpnInterfaces,
          a \in DetectVpnByIp, d \in DetectVpnByDns, r \in DetectVpnByRouting :
          DetectVpnStatus(<<p, i, a, d, r>>)
    \/ \E ok \in BOOLEAN : SaveVpnStatus(ok)
    \/ HandleVpnStatusChange
    \/ \E ok \in BOOLEAN : VpnEventCommit(ok)
    \/ VpnSleep

SpecVpn == InitVpn /\ [][NextVpn]_vars

\* ------------------------------------------------------------------------
\* Properties of the fusion
\* ------------------------------------------------------------------------

\* Fusion has returned a verdict for the list in results.
Fused == vpn_pc \in {"returned", "again", "extended"}

\* Some signal of the list carries a public IP.
PublicIpPresent == \E k \in DOMAIN results : results[k].public_ip # None

\* This step is the second call of fusion on the same list.
SecondCall == vpn_pc = "returned" /\ vpn_pc' = "again"

\* This step is the call of fusion on the list with a degraded signal added.
ExtendedCall == vpn_pc = "returned" /\ vpn_pc' = "extended"

\* C11: when a public IP is present in the signals, the verdict is active only
\* if some interface signal has confidence >= 0.7 and a provider or some ip
\* signal has a provider; process signals together with ip signals that have
\* no provider yield an inactive verdict without a provider.
C11_PublicIpNeedsInterfaceOrIpMatch ==
    (Fused /\ PublicIpPresent) =>
        /\ vpn_status[1].is_active =>
              \E k \in DOMAIN results :
                  \/ /\ results[k].method = "interface"
                     /\ results[k].confidence >= 70
                     /\ results[k].provider # None
                  \/ results[k].method = "ip" /\ results[k].provider # None
        /\ (\A k \in DOMAIN results :
               \/ results[k].method = "process"
               \/ results[k].method = "ip" /\ results[k].provider = None)
              => (~vpn_status[1].is_active /\ vpn_status[1].provider = None)

\* The list [{process, 0.9, P}, {ip, 0.3, no provider, public IP}] has been
\* fused: inactive, no provider.
C11_Witness ==
    /\ vpn_pc = "returned"
    /\ results = <<Signal("process", 90, Some("nordvpn"), None),
                   Signal("ip", 30, None, Some("203.0.113.7"))>>
    /\ ~vpn_status[1].is_active
    /\ vpn_status[1].provider = None
    /\ vpn_status[1].public_ip = Some("203.0.113.7")

\* C12: when no signal carries a public IP, the verdict is active exactly when
\* some signal has confidence >= 0.7, or is an ip or interface signal with a
\* provider, or the mean confidence is above 0.6; the single signal
\* {process, 0.9, P} yields active with provider P.
C12_NoPublicIpNoDowngrade ==
    (Fused /\ ~PublicIpPresent) =>
        /\ vpn_status[1].is_active <=>
              \/ \E k \in DOMAIN results :
                    \/ results[k].confidence >= 70
                    \/ results[k].method \in {"ip", "interface"}
                          /\ results[k].provider # None
              \/ vpn_status[1].confidence[1] > 60 * vpn_status[1].confidence[2]
        /\ results = <<Signal("process", 90, Some("nordvpn"), None)>>
              => /\ vpn_status[1].is_active
                 /\ vpn_status[1].provider = Some("nordvpn")

\* A list without a strong indicator whose mean alone makes the verdict active.
C12_Witness ==
    /\ vpn_pc = "returned"
    /\ results = <<Signal("dns", 65, Some("nordvpn"), None),
                   Signal("routing", 65, None, None)>>
    /\ vpn_status[1].is_active
    /\ vpn_status[1].provider = Some("nordvpn")
    /\ vpn_status[1].public_ip = None

\* C13: with a public IP present, a preliminary verdict of active, no ip
\* signal with a provider and no process or interface signal of confidence
\* >= 0.8, the verdict is inactive without a provider; and the final isActive
\* is preliminary AND (no public IP OR (first requirement AND second
\* requirement)).
C13_FirstDowngrade ==
    Fused =>
        LET preliminary ==
                \/ \E k \in DOMAIN results :
                      \/ results[k].confidence >= 70
                      \/ results[k].method \in {"ip", "interface"}
                            /\ results[k].provider # None
                \/ vpn_status[1].confidence[1] > 60 * vpn_status[1].confidence[2]
            ipProvider ==
                \E k \in DOMAIN results :
                    results[k].method = "ip" /\ results[k].provider # None
            first ==
                \/ ipProvider
                \/ \E k \in DOMAIN results :
                      /\ results[k].confidence >= 80
                      /\ results[k].method \in {"process", "interface"}
            second ==
                \/ ipProvider
                \/ \E k \in DOMAIN results :
                      /\ results[k].method = "interface"
                      /\ results[k].confidence >= 70
                      /\ results[k].provider # None
        IN  /\ (PublicIpPresent /\ preliminary /\ ~first)
                  => (~vpn_status[1].is_active /\ vpn_status[1].provider = None)
            /\ vpn_status[1].is_active <=>
                  (preliminary /\ (~PublicIpPresent \/ (first /\ second)))

\* An interface signal at 0.7 with a provider beside an unmatched public IP:
\* the second requirement is met, the first is not.
C13_Witness ==
    /\ vpn_pc = "returned"
    /\ results = <<Signal("interface", 70, Some("nordvpn"), None),
                   Signal("ip", 30, None, Some("203.0.113.7"))>>
    /\ ~vpn_status[1].is_active
    /\ vpn_status[1].provider = None

\* C14: adding a signal with confidence 0 and no provider to a signal list, at
\* any position, never turns an inactive verdict into an active one.
C14_DegradedSignalNeverActivates ==
    [][ExtendedCall =>
          (~vpn_status[1].is_active => ~vpn_status'[1].is_active)]_vars

\* A degraded signal was put in front of an ip signal that carries the public
\* IP; the verdict was inactive and is inactive.
C14_Witness ==
    /\ vpn_pc = "extended"
    /\ results = <<Signal("dns", 0, None, None),
                   Signal("ip", 70, None, Some("203.0.113.7"))>>
    /\ ~vpn_status[1].is_active

\* C15 as stated: two calls of fusion with the same ordered signal list return
\* the same verdict in every field, connection time included, whatever the
\* previous verdict and the time of the calls.
C15_SameVerdictEveryField ==
    [][SecondCall => vpn_status' = vpn_status]_vars

\* C15 amended: two calls of fusion with the same ordered signal list return
\* verdicts equal in every field other than the connection time, whatever the
\* previous verdict and the time of the calls.
C15_SameVerdictButConnectionTime ==
    [][SecondCall =>
          [vpn_status'[1] EXCEPT !.connection_time = None]
              = [vpn_status[1] EXCEPT !.connection_time = None]]_vars

\* The second call found an active previous verdict and took its connection
\* time, which is not the time of the call.
C15_Witness ==
    /\ vpn_pc = "again"
    /\ vpn_status[1].is_active
    /\ current_vpn_status # None
    /\ vpn_status[1].connection_time = Some(0)
    /\ cycle_time = 2

\* C16: for every non-empty signal list fusion returns a verdict, and when
\* every signal has confidence 0 and no provider the verdict is inactive with
\* confidence 0.
C16_DegradedInputInactive ==
    Fused =>
        /\ vpn_status # None
        /\ vpn_status[1].is_active \in BOOLEAN
        /\ vpn_status[1].detection_method \in Methods
        /\ vpn_status[1].connection_time # None
        /\ (\A k \in DOMAIN results :
                results[k].confidence = 0 /\ results[k].provider = None)
              => /\ ~vpn_status[1].is_active
                 /\ vpn_status[1].provider = None
                 /\ vpn_status[1].confidence = <<0, 1>>

\* Two degraded signals, one of them an ip signal that still carries the
\* public IP, have been fused.
C16_Witness ==
    /\ vpn_pc = "returned"
    /\ results = <<Signal("process", 0, None, None),
                   Signal("ip", 0, None, Some("203.0.113.7"))>>
    /\ ~vpn_status[1].is_active
    /\ vpn_status[1].confidence = <<0, 1>>

\* ------------------------------------------------------------------------
\* Properties of the VPN detection cycle
\* ------------------------------------------------------------------------

\* This step is the call of detect_vpn_status of one iteration.
DetectStep == vpn_pc = "detect" /\ vpn_pc' = "save"

\* This step is the comparison with the previous verdict and, when they
\* differ, the handler up to its commit.
HandleStep == vpn_pc = "compare" /\ vpn_pc' # "compare"

\* The verdict of the iteration before was active.
LastWasActive == last_verdict # None /\ last_verdict[1].is_active

\* The index of the last 'connected' event before event j (0 when none).
MatchingConnected(j) ==
    LET before == {i \in 1..(j - 1) : vpn_events[i].event_type = "connected"}
    IN  IF before = {} THEN 0
        ELSE CHOOSE i \in before : \A k \in before : k <= i

\* C17: a verdict's connection time is the previous verdict's only when the
\* new verdict is active and the previous verdict was active too; on the
\* cycle in which the verdict becomes active (previous verdict absent or
\* inactive) and on every inactive cycle it is the current cycle's time.
C17_ConnectionTimeReusedOnlyWhileActive ==
    [][DetectStep =>
          vpn_status'[1].connection_time =
              IF vpn_status'[1].is_active /\ LastWasActive'
              THEN last_verdict'[1].connection_time
              ELSE Some(now)]_vars

\* C18: the VPN cycle emits exactly one 'connected' event for each flip from
\* inactive (or no previous verdict) to active, exactly one 'disconnected'
\* event for each flip from active to inactive, and no event on a cycle whose
\* isActive equals the previous verdict's, whatever else changed.
C18_OneEventPerFlip ==
    [][/\ HandleStep =>
            LET new == vpn_status[1] IN
            IF new.is_active /\ ~LastWasActive
            THEN /\ Len(vpn_events') = Len(vpn_events) + 1
                 /\ SubSeq(vpn_events', 1, Len(vpn_events)) = vpn_events
                 /\ vpn_events'[Len(vpn_events')].event_type = "connected"
            ELSE IF ~new.is_active /\ LastWasActive
            THEN /\ Len(vpn_events') = Len(vpn_events) + 1
                 /\ SubSeq(vpn_events', 1, Len(vpn_events)) = vpn_events
                 /\ vpn_events'[Len(vpn_events')].event_type = "disconnected"
            ELSE vpn_events' = vpn_events
       /\ ~HandleStep => vpn_events' = vpn_events]_vars

\* Three cycles: active, active with another confidence (no event), inactive.
\* The two events are the connect of the first and the disconnect of the third.
C18_Witness ==
    /\ vpn_cycle = 3
    /\ vpn_pc = "sleep"
    /\ Len(vpn_events) = 2
    /\ vpn_events[1].event_type = "connected"
    /\ vpn_events[1].cycle = 0
    /\ vpn_events[2].event_type = "disconnected"
    /\ vpn_events[2].cycle = 2 * Interval
    /\ vpn_events[2].confidence # vpn_events[1].confidence

\* C19: a 'connected' event carries the new verdict's provider, public IP and
\* confidence and no dwell duration; a 'disconnected' event carries the
\* previous verdict's provider, public IP and confidence and, when the
\* previous verdict's connection time is known, a dwell duration.
C19_EventFields ==
    [][(HandleStep /\ Len(vpn_events') = Len(vpn_events) + 1) =>
          LET e == vpn_events'[Len(vpn_events')]
              new == vpn_status[1]
          IN  /\ e.event_type = "connected" =>
                    /\ e.provider = new.provider
                    /\ e.public_ip = new.public_ip
                    /\ e.confidence = new.confidence
                    /\ e.duration_minutes = None
              /\ e.event_type = "disconnected" =>
                    /\ last_verdict # None
                    /\ e.provider = last_verdict[1].provider
                    /\ e.public_ip = last_verdict[1].public_ip
                    /\ e.confidence = last_verdict[1].confidence
                    /\ last_verdict[1].connection_time # None
                          => e.duration_minutes # None]_vars

\* A disconnect after a minute: the event has the provider and the public IP
\* of the verdict that was active, the new verdict has neither.
C19_Witness ==
    /\ vpn_pc = "commit"
    /\ vpn_events # <<>>
    /\ LET e == vpn_events[Len(vpn_events)]
       IN  /\ e.event_type = "disconnected"
           /\ e.provider = Some("nordvpn")
           /\ e.public_ip = Some("203.0.113.7")
           /\ e.duration_minutes = Some(1)
    /\ vpn_status[1].provider = None
    /\ vpn_status[1].public_ip = None

\* C20: the dwell duration of every 'disconnected' event is the whole minutes
\* (floored) between the cycle time at which the matching 'connected' event
\* was emitted and the time of the disconnect.
C20_DwellSinceConnect ==
    \A j \in DOMAIN vpn_events :
        vpn_events[j].event_type = "disconnected" =>
            /\ MatchingConnected(j) # 0
            /\ vpn_events[j].duration_minutes =
                  Some((vpn_events[j].timestamp
                          - vpn_events[MatchingConnected(j)].cycle)
                       \div (SecondsPerMinute * TicksPerSecond))

\* ------------------------------------------------------------------------
\* detect_vpn_status of backend/vpn_monitor.py, source by source
\* (specification SpecDetect)
\* ------------------------------------------------------------------------

\* Nothing of the outage tracker runs.
OutageIdle ==
    /\ current_outage = None
    /\ outages = <<>>
    /\ outage_events = <<>>
    /\ session = {}
    /\ ping_pc = "off"
    /\ ping_i = 1
    /\ ping_result = None
    /\ dns_pc = "off"
    /\ dns_i = 1
    /\ dns_result = None
    /\ last_fed = "none"
    /\ run = None

\* The order in which detect_vpn_status awaits its sources.
SourceOrder == <<"process", "interface", "ip", "dns", "routing">>

\* The dicts the try block of each source can return.
SourceFindings(method) ==
    CASE method = "process" ->
            {Signal("process", 0, None, None),
             Signal("process", 90, Some("nordvpn"), None)}
      [] method = "interface" ->
            {Signal("interface", 0, None, None),
             Signal("interface", 40, Some("nordvpn"), None),
             Signal("interface", 80, Some("nordvpn"), None)}
      [] method = "ip" ->
            {Signal("ip", 0, None, None),
             Signal("ip", 30, None, Some("203.0.113.7")),
             Signal("ip", 70, Some("nordvpn"), Some("203.0.113.7"))}
      [] method = "dns" ->
            {Signal("dns", 0, None, None),
             Signal("dns", 60, Some("nordvpn"), None)}
      [] method = "routing" ->
            {Signal("routing", 0, None, None),
             Signal("routing", 50, None, None)}

\* An error that contributes a signal of middling confidence.
SourceErrorMiddling(method) == Signal(method, 50, None, None)

\* except Exception: return {'method': method, 'confidence': 0.0}
SourceError(method) == Signal(method, 0, None, None)

\* The source detect_vpn_status awaits next.
NextSource == SourceOrder[Len(results) + 1]

DetectFrame ==
    UNCHANGED <<now, trackerVars, pingVars, dnsVars, current_vpn_status,
                vpn_events, vpn_session, vpn_event_rows, vpn_status_rows,
                vpn_cycle, cycle_time, last_verdict, snapshots_added,
                logVars>>

InitDetect ==
    /\ now = 1
    /\ OutageIdle
    /\ results = <<>>
    /\ vpn_status = None
    /\ current_vpn_status \in PreviousVerdicts
    /\ vpn_pc = "sources"
    /\ vpn_events = <<>>
    /\ vpn_session = {}
    /\ vpn_event_rows = <<>>
    /\ vpn_status_rows = 0
    /\ vpn_cycle = 0
    /\ cycle_time = 0
    /\ last_verdict = None
    /\ snapshots_added = 0
    /\ source_errors = {}
    /\ vpn_history = <<>>
    /\ SchedInit(DefaultConfig)
    /\ SpeedIdle

\* The awaited source returns from its try block; its dict is appended.
SourceReturns(r) ==
    /\ vpn_pc = "sources"
    /\ r \in SourceFindings(NextSource)
    /\ results' = Append(results, r)
    /\ vpn_pc' = IF Len(results') = Len(SourceOrder) THEN "combine"
                 ELSE "sources"
    /\ UNCHANGED <<vpn_status, source_errors, schedVars, speedVars>>
    /\ DetectFrame

\* The awaited source raises or times out inside its try block; the dict of
\* its except clause is appended.
SourceRaises ==
    /\ vpn_pc = "sources"
    /\ results' = Append(results, SourceError(NextSource))
    /\ source_errors' = source_errors \cup {NextSource}
    /\ vpn_pc' = IF Len(results') = Len(SourceOrder) THEN "combine"
                 ELSE "sources"
    /\ UNCHANGED <<vpn_status, schedVars, speedVars>>
    /\ DetectFrame

\* return self._combine_detection_results(detection_results)
CombineResults ==
    /\ vpn_pc = "combine"
    /\ vpn_status' = Some(CombineDetectionResults(results, current_vpn_status,
                                                  now))
    /\ vpn_pc' = "detected"
    /\ UNCHANGED <<results, source_errors, schedVars, speedVars>>
    /\ DetectFrame

NextDetect ==
    \/ \E m \in {SourceOrder[k] : k \in DOMAIN SourceOrder} :
          \E r \in SourceFindings(m) : SourceReturns(r)
    \/ SourceRaises
    \/ CombineResults

SpecDetect == InitDetect /\ [][NextDetect]_vars

\* C21: within one detection the five sources are invoked in the order
\* process, interface, ip, dns, routing and all have returned before fusion
\* runs; fusion receives exactly five signals, and a source that raised or
\* timed out contributes {its method, confidence 0, no provider}.
C21_FiveSourcesInOrderThenFusion ==
    LET order == <<"process", "interface", "ip", "dns", "routing">>
    IN  /\ Len(results) <= 5
        /\ \A k \in DOMAIN results :
              /\ results[k].method = order[k]
              /\ order[k] \in source_errors =>
                    /\ results[k].confidence = 0
                    /\ results[k].provider = None
        /\ \A m \in source_errors :
              \E k \in DOMAIN results : results[k].method = m
        /\ vpn_pc \in {"combine", "detected"} <=> Len(results) = 5
        /\ vpn_status # None <=> vpn_pc = "detected"
        /\ vpn_pc = "detected" =>
              vpn_status = Some(CombineDetectionResults(
                                    results, current_vpn_status, now))

\* Fusion has run on five signals, one of them from a source that raised,
\* and found the VPN active.
C21_Witness ==
    /\ vpn_pc = "detected"
    /\ Len(results) = 5
    /\ "process" \in source_errors
    /\ vpn_status[1].is_active

\* C22: every iteration of the VPN cycle hands exactly one verdict snapshot to
\* the persistence sink, whether or not it produced a connect / disconnect
\* event: the snapshots handed over are as many as the iterations that have
\* passed their save, and the stored rows are never more.
C22_OneSnapshotPerCycle ==
    /\ snapshots_added = IF vpn_pc = "save" THEN vpn_cycle - 1 ELSE vpn_cycle
    /\ vpn_status_rows <= snapshots_added

\* Two iterations have handed over their snapshots and neither produced an
\* event.
C22_Witness ==
    /\ vpn_pc = "sleep"
    /\ vpn_cycle = 2
    /\ snapshots_added = 2
    /\ vpn_events = <<>>

\* ------------------------------------------------------------------------
\* The cycles as tasks of one event loop: start_monitoring, its gather,
\* stop_monitoring and the cancellation of main (specification SpecSched)
\* ------------------------------------------------------------------------
\* A task is at "start" (created, not yet run), in "probe" (inside its
\* synchronous subprocess.run or socket call, which holds the thread of the
\* event loop), in "write" (suspended at an await of its persistence work),
\* in "sleep" (the asyncio.sleep of the try block), in "handler_sleep" (the
\* asyncio.sleep of the except clause), or ended: "returned", "raised",
\* "cancelled".  The throughput cycle runs its default method, speedtest-cli.

PingIntervalSeconds == 30
SpeedTestIntervalMinutes == 15
StatsIntervalSeconds == 3600
CleanupIntervalSeconds == 86400
VpnErrorSleepSeconds == 30

\* The configurations: the check interval of the VPN cycle is the default or
\* twice the default; speed_test_interval_minutes is a number or a string.
Configs ==
    [check_interval_seconds : {CheckIntervalSeconds, 2 * CheckIntervalSeconds},
     speed_interval_is_number : BOOLEAN]

\* The cycles whose probe is a synchronous call inside the coroutine:
\* subprocess.run in _ping_host, _run_speedtest_cli and the evidence sources,
\* socket.gethostbyname in _test_dns.
BlockingProbes == {"ping", "speed", "dns", "vpn"}

\* The seconds a cycle passes to asyncio.sleep at the end of its try block.
IntervalOf(c, cfg) ==
    CASE c = "ping" -> PingIntervalSeconds
      [] c = "dns" -> PingIntervalSeconds
      [] c = "speed" -> SpeedTestIntervalMinutes * SecondsPerMinute
      [] c = "vpn" -> cfg.check_interval_seconds
      [] c = "stats" -> StatsIntervalSeconds
      [] c = "cleanup" -> CleanupIntervalSeconds

\* The seconds a cycle passes to asyncio.sleep in its except clause.
HandlerIntervalOf(c, cfg) ==
    IF c = "vpn" THEN VpnErrorSleepSeconds ELSE IntervalOf(c, cfg)

\* asyncio.sleep(interval_seconds) raises TypeError for a string.
SleepRaises(c, cfg) == c = "speed" /\ ~cfg.speed_interval_is_number

\* The reference a cycle reads when it begins an iteration, ends its probe
\* or ends its write.
ReadAtTop(c) == IF c = "speed" THEN {"current_vpn_status"} ELSE {}
ReadAtProbe(c) == IF c = "vpn" THEN {"current_vpn_status"} ELSE {}
UsedAtWrite(c) ==
    CASE c = "ping" -> {"current_outage"}
      [] c = "vpn" -> {"current_vpn_status"}
      [] OTHER -> {}

Access(c, refs) ==
    [r \in References |-> IF r \in refs THEN accessed[r] \cup {c}
                          ELSE accessed[r]]

SchedFrame ==
    UNCHANGED <<now, trackerVars, pingVars, dnsVars, vpnVars, detectVars,
                speedVars, logVars, config>>

InitSched ==
    /\ now = 0
    /\ OutageIdle
    /\ VpnInit("off")
    /\ source_errors = {}
    /\ vpn_history = <<>>
    /\ SpeedIdle
    /\ \E cfg \in Configs : SchedInit(cfg)

\* start_monitoring up to its await asyncio.gather(*tasks).
StartMonitoring ==
    /\ gather_pc = "idle"
    /\ is_running' = TRUE
    /\ task_pc' = [c \in Cycles |-> "start"]
    /\ gather_pc' = "awaiting"
    /\ UNCHANGED <<sleep_for, blocked_by, stop_called, interrupted, accessed>>
    /\ SchedFrame

\* A loop that tests nothing: while True.
LoopTopForever(c) ==
    /\ task_pc[c] \in {"start", "sleep", "handler_sleep"}
    /\ blocked_by = None
    /\ sleep_for' = [sleep_for EXCEPT ![c] = 0]
    /\ task_pc' = [task_pc EXCEPT ![c] =
                      IF c \in BlockingProbes THEN "probe" ELSE "write"]
    /\ blocked_by' = IF c \in BlockingProbes THEN Some(c) ELSE None
    /\ accessed' = Access(c, ReadAtTop(c))
    /\ UNCHANGED <<is_running, gather_pc, stop_called, interrupted>>
    /\ SchedFrame

\* while self.is_running: the task runs for the first time or its sleep has
\* returned; it leaves the loop or runs into its iteration up to the probe
\* (a blocking call) or up to its first await.
LoopTop(c) ==
    /\ task_pc[c] \in {"start", "sleep", "handler_sleep"}
    /\ blocked_by = None
    /\ sleep_for' = [sleep_for EXCEPT ![c] = 0]
    /\ IF is_running
       THEN /\ task_pc' = [task_pc EXCEPT ![c] =
                              IF c \in BlockingProbes THEN "probe" ELSE "write"]
            /\ blocked_by' = IF c \in BlockingProbes THEN Some(c) ELSE None
            /\ accessed' = Access(c, ReadAtTop(c))
       ELSE /\ task_pc' = [task_pc EXCEPT ![c] = "returned"]
            /\ UNCHANGED <<blocked_by, accessed>>
    /\ UNCHANGED <<is_running, gather_pc, stop_called, interrupted>>
    /\ SchedFrame

\* The blocking call returns; the task runs on to its next await.
ProbeReturns(c) ==
    /\ task_pc[c] = "probe"
    /\ blocked_by = Some(c)
    /\ task_pc' = [task_pc EXCEPT ![c] = "write"]
    /\ blocked_by' = None
    /\ accessed' = Access(c, ReadAtProbe(c))
    /\ UNCHANGED <<is_running, sleep_for, gather_pc, stop_called, interrupted>>
    /\ SchedFrame

\* The task has reached asyncio.sleep(seconds): it is suspended there, or
\* the call raises, which in the except clause ends the task with the error.
GoToSleep(c, pc, seconds) ==
    IF SleepRaises(c, config)
    THEN /\ task_pc' = [task_pc EXCEPT ![c] = "raised"]
         /\ UNCHANGED sleep_for
    ELSE /\ task_pc' = [task_pc EXCEPT ![c] = pc]
         /\ sleep_for' = [sleep_for EXCEPT ![c] = seconds]

\* The awaits of the iteration return (a failed commit is caught inside the
\* save); the task goes on to the sleep of its try block.
WriteReturns(c) ==
    /\ task_pc[c] = "write"
    /\ blocked_by = None
    /\ GoToSleep(c, "sleep", IntervalOf(c, config))
    /\ accessed' = Access(c, UsedAtWrite(c))
    /\ UNCHANGED <<is_running, blocked_by, gather_pc, stop_called, interrupted>>
    /\ SchedFrame

\* An exception reaches the except clause of the loop: it is logged and the
\* task goes on to the sleep of the clause.
Caught(c) ==
    /\ task_pc[c] = "write"
    /\ blocked_by = None
    /\ GoToSleep(c, "handler_sleep", HandlerIntervalOf(c, config))
    /\ UNCHANGED <<is_running, blocked_by, gather_pc, stop_called, interrupted,
                   accessed>>
    /\ SchedFrame

\* await asyncio.gather(*tasks) ends: with the first exception of a task
\* (logged by except Exception) or with every task returned; then
\* finally: self.is_running = False.
GatherEnds ==
    /\ gather_pc = "awaiting"
    /\ blocked_by = None
    /\ \/ \E c \in Cycles : task_pc[c] = "raised"
       \/ \A c \in Cycles : task_pc[c] = "returned"
    /\ is_running' = FALSE
    /\ gather_pc' = "returned"
    /\ UNCHANGED <<task_pc, sleep_for, blocked_by, stop_called, interrupted,
                   accessed>>
    /\ SchedFrame

\* stop_monitoring is called while the service runs.
StopMonitoring ==
    /\ gather_pc = "awaiting"
    /\ blocked_by = None
    /\ is_running' = FALSE
    /\ stop_called' = TRUE
    /\ UNCHANGED <<task_pc, sleep_for, blocked_by, gather_pc, interrupted,
                   accessed>>
    /\ SchedFrame

\* main: monitoring_task.cancel().  CancelledError is thrown into
\* start_monitoring at its gather, which cancels every task that has not
\* ended at the await where it is suspended; except Exception does not
\* catch it; finally: self.is_running = False.
MainCancel ==
    /\ gather_pc = "awaiting"
    /\ blocked_by = None
    /\ task_pc' = [c \in Cycles |->
                      IF task_pc[c] \in {"returned", "raised"} THEN task_pc[c]
                      ELSE "cancelled"]
    /\ interrupted' = {c \in Cycles : task_pc[c] = "write"}
    /\ sleep_for' = [c \in Cycles |-> 0]
    /\ is_running' = FALSE
    /\ gather_pc' = "cancelled"
    /\ UNCHANGED <<blocked_by, stop_called, accessed>>
    /\ SchedFrame

NextSched ==
    \/ StartMonitoring
    \/ \E c \in Cycles : LoopTop(c)
    \/ \E c \in Cycles : ProbeReturns(c)
    \/ \E c \in Cycles : WriteReturns(c)
    \/ \E c \in Cycles : Caught(c)
    \/ GatherEnds
    \/ StopMonitoring
    \/ MainCancel

SpecSched == InitSched /\ [][NextSched]_vars

\* The event loop runs every task that is ready: a sleep that has elapsed
\* returns, a subprocess call returns by its timeout at the latest, an await
\* of the write returns or raises, and gather ends once its tasks have.
\* Nothing obliges anyone to start, stop or cancel the service.
TaskStep(c) ==
    LoopTop(c) \/ ProbeReturns(c) \/ WriteReturns(c) \/ Caught(c)

SpecSchedFair ==
    /\ SpecSched
    /\ \A c \in Cycles : WF_vars(TaskStep(c))
    /\ WF_vars(GatherEnds)

\* C23: in every cycle an error caught by the loop does not end the loop, and
\* the sleep that follows it is the configured interval the cycle sleeps
\* after a successful iteration.
C23_SameIntervalAfterError ==
    \A c \in Cycles :
        task_pc[c] = "handler_sleep" => sleep_for[c] = IntervalOf(c, config)

\* C24: cycles do not block each other: while the throughput cycle is in the
\* middle of a measurement, or any cycle is inside a probe, the reachability
\* cycle whose sleep has ended can start its next iteration.
C24_ProbeDoesNotBlockReachability ==
    (/\ is_running
     /\ task_pc["ping"] \in {"start", "sleep", "handler_sleep"}
     /\ \E c \in Cycles \ {"ping"} : task_pc[c] = "probe")
        => ENABLED LoopTop("ping")

\* C25: cycles are independent failure domains: when the task of one cycle
\* has ended with an error and nobody has stopped or cancelled the service,
\* the running flag the other cycles poll is not cleared.
C25_FlagSurvivesTaskError ==
    (/\ \E c \in Cycles : task_pc[c] = "raised"
     /\ ~stop_called
     /\ gather_pc # "cancelled")
        => is_running

\* C26: stopping the service never interrupts a cycle between the start of a
\* unit of work and the end of its write, on every shutdown path including
\* the cancellation main uses: no task ends inside a unit of work.
C26_NoTaskEndsInsideUnitOfWork ==
    \A c \in Cycles : task_pc[c] = "cancelled" => c \notin interrupted

\* C29: the open-outage reference is read and written only by the task of the
\* reachability cycle and the previous-verdict reference only by the task of
\* the VPN detection cycle.
C29_ReferencesHaveOneOwner ==
    /\ accessed["current_outage"] \subseteq {"ping"}
    /\ accessed["current_vpn_status"] \subseteq {"vpn"}

\* ------------------------------------------------------------------------
\* The throughput iteration of backend/monitoring.py and the HTTP fallback of
\* backend/hybrid_speed_test.py (specification SpecSpeed)
\* ------------------------------------------------------------------------
\* Throughputs are in hundredths of a Mbps, the precision round(x, 2) keeps.

MaxSpeedTests == 2
UploadDivisor == 5

\* The throughputs a download can observe, and the calibration factors.
SpeedLevels == {800, 1000, 1200}
CalibrationFactors == {CalibrationFactor, 10}
SpeedTestConfigs ==
    [method : {"speedtest-cli", "http"},
     calibration_factor : CalibrationFactors]

\* What one download observes: None when it failed.
Observations == {None} \cup {Some(v) : v \in SpeedLevels}

\* The ways _run_speedtest_cli ends: exit status 0, another exit status,
\* subprocess.TimeoutExpired, any other exception (speedtest-cli missing).
CliOutcomes == {"ok", "returncode", "timeout", "exception"}

\* round(n / d, 2) on hundredths: the nearest hundredth.
RoundDiv(n, d) == (2 * n + d) \div (2 * d)

LessOrEqual(a, b) == a <= b

\* [r['download_mbps'] for r in results]: the downloads that succeeded.
SucceededSpeeds(obs) ==
    LET kept == SelectSeq(obs, LAMBDA o : o # None)
    IN  [k \in DOMAIN kept |-> kept[k][1]]

SpeedDict(success, download, upload, strategy, raw) ==
    [success |-> success, download_mbps |-> download, upload_mbps |-> upload,
     strategy |-> strategy, raw_results |-> raw]

\* The result dict of _run_speedtest_cli: the measurement of speedtest-cli,
\* or one of its three failure dicts.
SpeedtestCliResult(outcome) ==
    IF outcome = "ok"
    THEN SpeedDict(TRUE, Some(9500), Some(2000), "speedtest-cli", <<>>)
    ELSE SpeedDict(FALSE, None, None, "speedtest-cli", <<>>)

\* InternetMonitor._run_http_speed_test: one download of 1 MB, its throughput
\* times the calibration factor; no upload.
HttpSpeedTestResult(o, factor) ==
    IF o # None
    THEN SpeedDict(TRUE, Some(o[1] * factor), None, "http", <<o[1]>>)
    ELSE SpeedDict(FALSE, None, None, "http", <<>>)

\* speeds.sort(); median_speed = speeds[len(speeds) // 2]
MiddleOf(speeds) == speeds[(Len(speeds) \div 2) + 1]

\* HybridSpeedTest._run_http_speed_test: the downloads that succeeded, the
\* middle one of the sorted throughputs times the calibration factor, upload
\* a fifth of it; the failure dict when every download failed.
HttpCalibratedResult(obs, factor) ==
    LET speeds == SortSeq(SucceededSpeeds(obs), LessOrEqual)
    IN  IF speeds = <<>>
        THEN SpeedDict(FALSE, None, None, "http_calibrated", <<>>)
        ELSE LET calibrated_speed == MiddleOf(speeds) * factor
             IN  SpeedDict(TRUE, Some(calibrated_speed),
                           Some(RoundDiv(calibrated_speed, UploadDivisor)),
                           "http_calibrated", SucceededSpeeds(obs))

Attempt(r) == [strategy |-> r.strategy, success |-> r.success]

SpeedFrame ==
    UNCHANGED <<now, trackerVars, pingVars, dnsVars, vpnVars, detectVars,
                schedVars, logVars, speed_test_config, file_speeds>>

InitSpeed ==
    /\ now = 0
    /\ OutageIdle
    /\ VpnInit("off")
    /\ source_errors = {}
    /\ vpn_history = <<>>
    /\ SchedInit(DefaultConfig)
    /\ speed_test_config \in SpeedTestConfigs
    /\ speed_pc \in {"run", "hybrid"}
    /\ attempted = <<>>
    /\ speed_result = None
    /\ speed_tests = <<>>
    /\ file_speeds \in [1..3 -> Observations]
    /\ hybrid_result = None

\* result = await self._run_speed_test(...) with method 'speedtest-cli':
\* the dict of _run_speedtest_cli is returned as it is.
RunSpeedtestCli(outcome) ==
    /\ speed_pc = "run"
    /\ speed_test_config.method = "speedtest-cli"
    /\ speed_result' = Some(SpeedtestCliResult(outcome))
    /\ attempted' = <<Attempt(SpeedtestCliResult(outcome))>>
    /\ speed_pc' = "save"
    /\ UNCHANGED <<speed_tests, hybrid_result>>
    /\ SpeedFrame

\* result = await self._run_speed_test(...) with any other method.
RunHttpSpeedTest(o) ==
    /\ speed_pc = "run"
    /\ speed_test_config.method # "speedtest-cli"
    /\ LET r == HttpSpeedTestResult(o, speed_test_config.calibration_factor)
       IN  /\ speed_result' = Some(r)
           /\ attempted' = <<Attempt(r)>>
    /\ speed_pc' = "save"
    /\ UNCHANGED <<speed_tests, hybrid_result>>
    /\ SpeedFrame

\* await self._save_speed_test(result): the commit returns, or it raises and
\* the except clause logs the error.
SaveSpeedTest(ok) ==
    /\ speed_pc = "save"
    /\ speed_tests' =
          IF ok
          THEN Append(speed_tests,
                      [result |-> speed_result[1], attempted |-> attempted])
          ELSE speed_tests
    /\ speed_pc' = "sleep"
    /\ UNCHANGED <<attempted, speed_result, hybrid_result>>
    /\ SpeedFrame

\* await asyncio.sleep(interval_seconds) returns; the next iteration begins.
SpeedSleep ==
    /\ speed_pc = "sleep"
    /\ Len(speed_tests) < MaxSpeedTests
    /\ speed_pc' = "run"
    /\ speed_result' = None
    /\ attempted' = <<>>
    /\ UNCHANGED <<speed_tests, hybrid_result>>
    /\ SpeedFrame

\* HybridSpeedTest._run_http_speed_test is called and returns.
HybridRunHttpSpeedTest ==
    /\ hybrid_result = None
    /\ hybrid_result' =
          Some(HttpCalibratedResult(file_speeds,
                                    speed_test_config.calibration_factor))
    /\ UNCHANGED <<speed_pc, attempted, speed_result, speed_tests>>
    /\ SpeedFrame

\* The result dict of HybridSpeedTest._run_speedtest_cli: the measurement of
\* the speedtest_cli library, or the failure dict of its except clause.
HybridSpeedtestCliResult(raised) ==
    IF raised
    THEN SpeedDict(FALSE, None, None, "speedtest-cli", <<>>)
    ELSE SpeedDict(TRUE, Some(9500), Some(2000), "speedtest-cli", <<>>)

\* The result dict of HybridSpeedTest._run_http_speed_test with the key the
\* success dict alone carries: 'calibration_factor'.
HybridHttpResult(obs, factor) ==
    LET r == HttpCalibratedResult(obs, factor)
    IN  IF r.success
        THEN [f \in DOMAIN r \cup {"calibration_factor"} |->
                 IF f = "calibration_factor" THEN factor ELSE r[f]]
        ELSE r

\* A run that hands back whatever the primary strategy produced.
PrimaryResultReturnedAlways(method, result) == method = "speedtest-cli"

\* if method == 'speedtest-cli': ... if result['success']: return result
PrimaryResultReturned(method, result) ==
    method = "speedtest-cli" /\ result.success

\* HybridSpeedTest.run_speed_test up to its first return or to the fallback:
\* with method 'speedtest-cli' the primary strategy runs and its result is
\* returned when it succeeded; otherwise the run goes on to the fallback.
HybridRunSpeedTest(raised) ==
    /\ speed_pc = "hybrid"
    /\ LET method == speed_test_config.method
           result == HybridSpeedtestCliResult(raised)
       IN  /\ attempted' = IF method = "speedtest-cli"
                           THEN <<Attempt(result)>>
                           ELSE attempted
           /\ IF PrimaryResultReturned(method, result)
              THEN /\ speed_result' = Some(result)
                   /\ speed_pc' = "hybrid_returned"
              ELSE /\ speed_result' = speed_result
                   /\ speed_pc' = "hybrid_fallback"
    /\ UNCHANGED <<speed_tests, hybrid_result>>
    /\ SpeedFrame

\* return await self._run_http_speed_test()
HybridFallback ==
    /\ speed_pc = "hybrid_fallback"
    /\ LET r == HybridHttpResult(file_speeds,
                                 speed_test_config.calibration_factor)
       IN  /\ speed_result' = Some(r)
           /\ attempted' = Append(attempted, Attempt(r))
    /\ speed_pc' = "hybrid_returned"
    /\ UNCHANGED <<speed_tests, hybrid_result>>
    /\ SpeedFrame

NextSpeed ==
    \/ \E raised \in BOOLEAN : HybridRunSpeedTest(raised)
    \/ HybridFallback
    \/ \E outcome \in CliOutcomes : RunSpeedtestCli(outcome)
    \/ \E o \in Observations : RunHttpSpeedTest(o)
    \/ \E ok \in BOOLEAN : SaveSpeedTest(ok)
    \/ SpeedSleep
    \/ HybridRunHttpSpeedTest

SpecSpeed == InitSpeed /\ [][NextSpeed]_vars

\* The primary strategy ran in these attempts and failed.
PrimaryFailed(attempts) ==
    \E k \in DOMAIN attempts :
        attempts[k].strategy = "speedtest-cli" /\ ~attempts[k].success

FallbackAttempted(attempts) ==
    \E k \in DOMAIN attempts : attempts[k].strategy = "http"

\* C27: in the throughput cycle, whenever speedtest-cli fails or is
\* unavailable in an iteration, the HTTP strategy is run in that iteration and
\* its result is the one persisted; a failure result of the primary is
\* persisted only if the fallback was attempted too.
C27_FallbackAfterPrimaryFailure ==
    /\ (speed_pc \in {"save", "sleep"} /\ PrimaryFailed(attempted)) =>
          /\ FallbackAttempted(attempted)
          /\ speed_result[1].strategy = "http"
    /\ \A k \in DOMAIN speed_tests :
          PrimaryFailed(speed_tests[k].attempted) =>
              /\ FallbackAttempted(speed_tests[k].attempted)
              /\ speed_tests[k].result.strategy = "http"

\* Twice the median of a sorted list of one, two or three throughputs.
TwiceMedian(speeds) ==
    IF Len(speeds) % 2 = 1
    THEN 2 * speeds[(Len(speeds) + 1) \div 2]
    ELSE speeds[Len(speeds) \div 2] + speeds[(Len(speeds) \div 2) + 1]

\* The fallback results the state holds: the one of the hybrid fallback and
\* the one of the throughput iteration when its strategy was HTTP.
FallbackResults ==
    {hybrid_result[k] : k \in DOMAIN hybrid_result}
        \cup {speed_result[k] : k \in {j \in DOMAIN speed_result :
                                          speed_result[j].strategy = "http"}}

\* C28: a successful fallback result's download is the median of the
\* throughputs of the downloads that succeeded (one, two or three) times the
\* calibration factor, and its upload is that download divided by 5.
C28_MedianTimesFactor ==
    \A r \in FallbackResults :
        r.success =>
            /\ 2 * r.download_mbps[1] =
                  TwiceMedian(SortSeq(r.raw_results, LessOrEqual))
                      * speed_test_config.calibration_factor
            /\ r.upload_mbps = Some(RoundDiv(r.download_mbps[1], UploadDivisor))

\* C30: a persistence failure during an outage open or an outage close does
\* not escape the iteration, and the open-outage slot after the commit step
\* is the one the same step leaves when the write succeeds: unchanged after
\* an open, empty after a close (likewise the previous verdict after the
\* VPN event commit is the verdict of the iteration).
C30_TrackerStateAsIfWritten ==
    [][/\ (ping_pc = "open_commit" /\ ping_pc' # "open_commit")
            => current_outage' = current_outage
       /\ (ping_pc = "close_commit" /\ ping_pc' # "close_commit")
            => current_outage' = None
       /\ (vpn_pc = "commit" /\ vpn_pc' # "commit")
            => current_vpn_status' = vpn_status]_vars

\* ------------------------------------------------------------------------
\* Further properties of the fusion
\* ------------------------------------------------------------------------

\* C31: the verdict's confidence is the arithmetic mean of the five signal
\* confidences of the cycle, hence in [0, 1], and its detection method is the
\* method of the highest-confidence signal, the first in the order process,
\* interface, ip, dns, routing on a tie (an all-zero cycle reports 'process').
C31_MeanConfidenceFirstBestMethod ==
    vpn_pc = "detected" =>
        LET v == vpn_status[1]
            total == results[1].confidence + results[2].confidence
                     + results[3].confidence + results[4].confidence
                     + results[5].confidence
        IN  /\ v.confidence[1] * 5 = total * v.confidence[2]
            /\ v.confidence[2] > 0
            /\ 0 <= v.confidence[1]
            /\ v.confidence[1] <= 100 * v.confidence[2]
            /\ \E k \in 1..5 :
                  /\ v.detection_method = results[k].method
                  /\ \A j \in 1..5 : results[j].confidence <= results[k].confidence
                  /\ \A j \in 1..(k - 1) :
                        results[j].confidence < results[k].confidence
            /\ (total = 0) => v.detection_method = "process"

\* An all-zero cycle has been fused: five signals tie at confidence 0.
C31_Witness ==
    /\ vpn_pc = "detected"
    /\ \A k \in 1..5 : results[k].confidence = 0
    /\ vpn_status[1].detection_method = "process"
    /\ vpn_status[1].confidence = <<0, 1>>

\* The first strong indicator of the fused list, as none or some signal.
FirstStrong ==
    LET strong == {k \in DOMAIN results :
                      \/ results[k].confidence >= 70
                      \/ /\ results[k].method \in {"ip", "interface"}
                         /\ results[k].provider # None}
    IN  IF strong = {} THEN None
        ELSE Some(results[CHOOSE k \in strong : \A j \in strong : k <= j])

\* The first signal of the highest confidence in the fused list.
FirstBest ==
    results[CHOOSE k \in DOMAIN results :
               /\ \A j \in DOMAIN results :
                     results[j].confidence <= results[k].confidence
               /\ \A j \in 1..(k - 1) :
                     results[j].confidence < results[k].confidence]

C35_InactiveHasNoProvider ==
    (Fused /\ ~vpn_status[1].is_active) => vpn_status[1].provider = None

\* An inactive verdict that a downgrade made inactive: the list has a strong
\* indicator with a provider.
C35_Witness ==
    /\ Fused
    /\ ~vpn_status[1].is_active
    /\ FirstStrong # None
    /\ FirstStrong[1].provider # None

\* ------------------------------------------------------------------------
\* Further properties of the outage tracker
\* ------------------------------------------------------------------------

\* C34: the tracker never becomes wedged: whatever probes and persistence
\* failures came before, when _check_outage_status returns from a failed
\* probe the tracker holds an unresolved outage, and when it returns from a
\* successful probe it holds none.
C34_NeverWedged ==
    [][CheckReturns =>
          IF ping_result[1].is_connected
          THEN current_outage' = None
          ELSE /\ current_outage' # None
               /\ ~Truthy(outages'[current_outage'[1]].is_resolved)]_vars

\* C37: once an OutageEvent is resolved, its start, end, duration and
\* resolved flag never change again: no later probe modifies or reopens it.
C37_ResolvedOutageFrozen ==
    [][\A k \in DOMAIN outages :
          Truthy(outages[k].is_resolved) =>
              /\ k \in DOMAIN outages'
              /\ outages'[k].start_time = outages[k].start_time
              /\ outages'[k].end_time = outages[k].end_time
              /\ outages'[k].duration_seconds = outages[k].duration_seconds
              /\ outages'[k].is_resolved = outages[k].is_resolved]_vars

\* A resolved outage is still in the slot and a probe processed after its
\* resolution has failed.
C37_Witness ==
    /\ current_outage # None
    /\ Truthy(outages[current_outage[1]].is_resolved)
    /\ last_fed = "fail"
    /\ ping_pc \in {"ping", "sleep"}

\* ------------------------------------------------------------------------
\* Further properties of the VPN detection cycle
\* ------------------------------------------------------------------------

\* C36: at the end of every VPN detection iteration that completes, the
\* previous-verdict reference is field for field the verdict produced in that
\* iteration, whether or not an edge occurred and whether or not the snapshot
\* or the event write failed.
C36_PreviousVerdictIsThisVerdict ==
    vpn_pc = "sleep" =>
        /\ current_vpn_status # None
        /\ vpn_status # None
        /\ \A f \in DOMAIN vpn_status[1] :
              current_vpn_status[1][f] = vpn_status[1][f]

\* An iteration has ended in which the snapshot was not stored and the event
\* of the edge was not stored either.
C36_Witness ==
    /\ vpn_pc = "sleep"
    /\ vpn_status_rows < snapshots_added
    /\ Len(vpn_event_rows) < Len(vpn_events)
    /\ vpn_status[1].is_active

\* ------------------------------------------------------------------------
\* HybridSpeedTest.run_speed_test
\* ------------------------------------------------------------------------

\* C33: run_speed_test returns the primary result exactly when the configured
\* method is speedtest-cli and the primary succeeded, and then the fallback
\* has not run; in every other case it returns the result of the HTTP
\* fallback, tagged 'http_calibrated' and, on success, carrying the
\* calibration factor used; a run ends with a result also when both
\* strategies failed.
C33_PrimaryElseCalibratedFallback ==
    /\ speed_pc \in {"hybrid", "hybrid_fallback", "hybrid_returned",
                     "run", "save", "sleep"}
    /\ speed_pc = "hybrid_fallback" => ENABLED HybridFallback
    /\ speed_pc = "hybrid_returned" =>
          /\ speed_result # None
          /\ LET r == speed_result[1]
                 method == speed_test_config.method
                 factor == speed_test_config.calibration_factor
                 primary_succeeded ==
                     /\ attempted # <<>>
                     /\ attempted[1] = [strategy |-> "speedtest-cli",
                                        success |-> TRUE]
             IN  IF method = "speedtest-cli" /\ primary_succeeded
                 THEN /\ r = HybridSpeedtestCliResult(FALSE)
                      /\ Len(attempted) = 1
                 ELSE /\ r.strategy = "http_calibrated"
                      /\ attempted[Len(attempted)] = Attempt(r)
                      /\ r.success =>
                            /\ "calibration_factor" \in DOMAIN r
                            /\ r.calibration_factor = factor
                            /\ r.download_mbps =
                                  HttpCalibratedResult(file_speeds,
                                                       factor).download_mbps
                      /\ r.success <=> \E k \in 1..3 : file_speeds[k] # None

\* Both strategies ran and both failed, and the run returned the failure
\* dict of the fallback.
C33_Witness ==
    /\ speed_pc = "hybrid_returned"
    /\ Len(attempted) = 2
    /\ ~attempted[1].success
    /\ ~speed_result[1].success
    /\ speed_result[1].strategy = "http_calibrated"

\* ------------------------------------------------------------------------
\* Stopping the service
\* ------------------------------------------------------------------------

\* Every loop has left by its own return (or had ended with its error
\* before), and start_monitoring has returned with the flag cleared.
LoopsExited ==
    /\ \A c \in Cycles : task_pc[c] \in {"returned", "raised"}
    /\ gather_pc = "returned"
    /\ ~is_running

\* C38: after stop_monitoring() is called every cycle loop eventually exits:
\* no loop starts a further iteration once the stop has been called, each
\* loop observes is_running = false after its iteration and sleep and
\* returns, and start_monitoring then returns with is_running = false
\* (unless the task of the service is cancelled first, which ends them all).
C38_StopEndsEveryLoop ==
    /\ [][\A c \in Cycles :
            (stop_called /\ task_pc[c] \in {"start", "sleep", "handler_sleep"})
                => task_pc'[c] \in {task_pc[c], "returned", "cancelled"}]_vars
    /\ stop_called ~> (LoopsExited \/ gather_pc = "cancelled")

\* The stop was called, every loop has returned and start_monitoring has
\* returned.
C38_Witness ==
    /\ stop_called
    /\ \A c \in Cycles : task_pc[c] = "returned"
    /\ gather_pc = "returned"
    /\ ~is_running

\* ------------------------------------------------------------------------
\* The retention sweep of backend/monitoring.py and its manual twin of
\* backend/api.py (specification SpecRetain)
\* ------------------------------------------------------------------------
\* The sweep finds the table as earlier runs of the service left it.  The
\* other tables are empty in this specification, so the deletes the sweep
\* issues on them remove nothing.

RetentionDays == 90
SecondsPerDay == 86400

\* timedelta(days=retention_days) in ticks
RetentionTicks == RetentionDays * SecondsPerDay * TicksPerSecond

\* A row of outage_events of an outage that began at t: still open, or closed
\* one tick later.
StoredOutageRow(t, resolved) ==
    LET opened == NewOutageEvent([timestamp |-> t, is_connected |-> FALSE,
                                  target_host |-> PingHosts[1],
                                  test_type |-> "ping"])
        closing == [timestamp |-> t + 1, is_connected |-> TRUE,
                    target_host |-> PingHosts[1], test_type |-> "ping"]
    IN  RowOf(IF resolved THEN ResolveOutage(opened, closing) ELSE opened)

StoredOutageRows ==
    {StoredOutageRow(t, resolved) : t \in 0..MaxTime, resolved \in BOOLEAN}

\* cutoff_date = self.get_arizona_time() - timedelta(days=retention_days)
CutoffDate == now - RetentionTicks

\* A sweep that removes every outage older than the cutoff.
OutageDeleteByAge(row, cutoff_date) == row.start_time < cutoff_date

\* and_(OutageEvent.start_time < cutoff_date, OutageEvent.is_resolved == True)
OutageDelete(row, cutoff_date) ==
    row.start_time < cutoff_date /\ row.is_resolved = TRUE

\* The table after the DELETE: the rows the condition does not select.
AfterOutageDelete(rows, cutoff_date) ==
    SelectSeq(rows, LAMBDA row : ~OutageDelete(row, cutoff_date))

RetainFrame ==
    UNCHANGED <<current_outage, outages, session, pingVars, dnsVars, vpnVars,
                detectVars, speedVars, logVars, config, is_running,
                blocked_by, gather_pc, stop_called, interrupted, accessed>>

InitRetain ==
    /\ now \in {RetentionTicks + t : t \in 1..(MaxTime + 1)}
    /\ current_outage = None
    /\ outages = <<>>
    /\ outage_events \in
          UNION {[1..n -> StoredOutageRows] : n \in 0..MaxOutages}
    /\ session = {}
    /\ ping_pc = "off"
    /\ ping_i = 1
    /\ ping_result = None
    /\ dns_pc = "off"
    /\ dns_i = 1
    /\ dns_result = None
    /\ last_fed = "none"
    /\ run = None
    /\ VpnInit("off")
    /\ source_errors = {}
    /\ vpn_history = <<>>
    /\ SpeedIdle
    /\ config = DefaultConfig
    /\ is_running = TRUE
    /\ task_pc = [c \in Cycles |-> IF c = "cleanup" THEN "start" ELSE "none"]
    /\ sleep_for = [c \in Cycles |-> 0]
    /\ blocked_by = None
    /\ gather_pc = "awaiting"
    /\ stop_called = FALSE
    /\ interrupted = {}
    /\ accessed = [r \in References |-> {}]

\* Time passes.
RetainTick ==
    /\ now < RetentionTicks + MaxTime + 1
    /\ now' = now + 1
    /\ UNCHANGED <<outage_events, task_pc, sleep_for>>
    /\ RetainFrame

\* One iteration of _database_cleanup_service: _cleanup_old_records issues
\* the deletes and one commit (when the commit raises the transaction is
\* rolled back and the error logged), then the task sleeps for a day.
CleanupOldRecords(ok) ==
    /\ task_pc["cleanup"] \in {"start", "sleep"}
    /\ is_running
    /\ outage_events' =
          IF ok THEN AfterOutageDelete(outage_events, CutoffDate)
          ELSE outage_events
    /\ task_pc' = [task_pc EXCEPT !["cleanup"] = "sleep"]
    /\ sleep_for' = [sleep_for EXCEPT !["cleanup"] = CleanupIntervalSeconds]
    /\ UNCHANGED now
    /\ RetainFrame

\* POST /api/cleanup, manual_database_cleanup: the same deletes and commit;
\* a failure is answered with status 500.
ManualDatabaseCleanup(ok) ==
    /\ outage_events' =
          IF ok THEN AfterOutageDelete(outage_events, CutoffDate)
          ELSE outage_events
    /\ UNCHANGED <<now, task_pc, sleep_for>>
    /\ RetainFrame

NextRetain ==
    \/ RetainTick
    \/ \E ok \in BOOLEAN : CleanupOldRecords(ok)
    \/ \E ok \in BOOLEAN : ManualDatabaseCleanup(ok)

SpecRetain == InitRetain /\ [][NextRetain]_vars

\* The number of rows of a table equal to a given row.
CountOf(rows, row) == Cardinality({k \in DOMAIN rows : rows[k] = row})

\* C39: the retention sweep, scheduled or manual, never deletes an
\* unresolved outage however old it is; the only outage rows it removes are
\* resolved ones that began before the cutoff.
C39_SweepKeepsUnresolvedOutages ==
    [][\A row \in StoredOutageRows :
          /\ CountOf(outage_events', row) <= CountOf(outage_events, row)
          /\ ~row.is_resolved =>
                CountOf(outage_events', row) = CountOf(outage_events, row)
          /\ CountOf(outage_events', row) < CountOf(outage_events, row) =>
                /\ row.is_resolved
                /\ row.start_time < CutoffDate]_vars

\* The scheduled sweep has run (every cutoff of this specification is later
\* than time 0) and an unresolved outage that began at time 0 is in the table.
C39_Witness ==
    /\ task_pc["cleanup"] = "sleep"
    /\ \E k \in DOMAIN outage_events :
          /\ ~outage_events[k].is_resolved
          /\ outage_events[k].start_time = 0
          /\ outage_events[k].start_time < CutoffDate

\* ------------------------------------------------------------------------
\* The standalone loop of VPNMonitor and its status history (specification
\* SpecLog)
\* ------------------------------------------------------------------------

HistoryLimit == 1000
MaxExtraLogs == 2

\* The verdicts detect_vpn_status returns in this specification.
LoggedVerdicts == PreviousVerdicts \ {None}

\* log_entry of _log_vpn_status
LogEntry(status) ==
    [timestamp |-> now,
     is_active |-> status.is_active,
     provider |-> status.provider,
     public_ip |-> status.public_ip,
     confidence |-> status.confidence,
     detection_method |-> status.detection_method]

\* A trim that keeps the oldest entries.
KeepOldest(history) ==
    IF Len(history) > HistoryLimit
    THEN SubSeq(history, 1, HistoryLimit)
    ELSE history

\* if len(self.vpn_history) > 1000:
\*     self.vpn_history = self.vpn_history[-1000:]
KeepLast(history) ==
    IF Len(history) > HistoryLimit
    THEN SubSeq(history, Len(history) - HistoryLimit + 1, Len(history))
    ELSE history

LogFrame ==
    UNCHANGED <<trackerVars, pingVars, dnsVars, results, vpn_events,
                vpn_session, vpn_event_rows, vpn_status_rows, cycle_time,
                last_verdict, snapshots_added, detectVars, schedVars,
                speedVars>>

\* VPNMonitor.__init__, and start_vpn_monitoring up to its loop.
InitLog ==
    /\ now = 0
    /\ OutageIdle
    /\ VpnInit("standalone_detect")
    /\ ExtraIdle

\* vpn_status = await self.detect_vpn_status(); when it differs from the
\* previous verdict _handle_vpn_status_change logs the edge and
\* self.current_vpn_status = vpn_status.  The environment changes during the
\* first MaxTime iterations and is steady afterwards.
StandaloneDetect(v) ==
    /\ vpn_pc = "standalone_detect"
    /\ vpn_cycle < HistoryLimit + MaxTime + MaxExtraLogs
    /\ (vpn_cycle >= MaxTime /\ current_vpn_status # None) =>
          v = current_vpn_status
    /\ vpn_status' = v
    /\ current_vpn_status' = v
    /\ vpn_pc' = "standalone_log"
    /\ UNCHANGED <<now, vpn_cycle, vpn_history>>
    /\ LogFrame

\* await self._log_vpn_status(vpn_status), then asyncio.sleep(interval)
\* returns and the next iteration begins.
LogVpnStatus ==
    /\ vpn_pc = "standalone_log"
    /\ vpn_history' = KeepLast(Append(vpn_history, LogEntry(vpn_status[1])))
    /\ vpn_cycle' = vpn_cycle + 1
    /\ now' = now + Interval
    /\ vpn_pc' = "standalone_detect"
    /\ UNCHANGED <<vpn_status, current_vpn_status>>
    /\ LogFrame

\* The iteration raises before the log step: the except clause logs the
\* error and sleeps 30 seconds; nothing is added to the history.
StandaloneError ==
    /\ vpn_pc = "standalone_detect"
    /\ vpn_cycle < MaxTime
    /\ vpn_cycle' = vpn_cycle + 1
    /\ now' = now + VpnErrorSleepSeconds * TicksPerSecond
    /\ UNCHANGED <<vpn_status, current_vpn_status, vpn_pc, vpn_history>>
    /\ LogFrame

NextLog ==
    \/ \E v \in LoggedVerdicts : StandaloneDetect(v)
    \/ LogVpnStatus
    \/ StandaloneError

SpecLog == InitLog /\ [][NextLog]_vars

\* C40: in the standalone loop the status history never holds more than
\* 1000 entries after a log step, and when it is trimmed the entries kept are
\* the 1000 most recent ones in their original order: the history after a
\* log step is the tail of the old history followed by the new entry.
C40_HistoryKeepsLastThousand ==
    /\ [](Len(vpn_history) <= HistoryLimit)
    /\ [][vpn_pc = "standalone_log" =>
            LET logged == Append(vpn_history, LogEntry(vpn_status[1]))
                kept == Len(vpn_history')
            IN  /\ kept = IF Len(logged) < HistoryLimit
                          THEN Len(logged) ELSE HistoryLimit
                /\ \A k \in 1..kept :
                      vpn_history'[k] = logged[Len(logged) - kept + k]]_vars

\* A log step has trimmed the history: it is full, and its oldest entry is
\* later than the first entry the loop can have logged.
C40_Witness ==
    /\ vpn_pc = "standalone_detect"
    /\ Len(vpn_history) = HistoryLimit
    /\ vpn_history[1].timestamp > MaxTime * Interval

====
